---------------------------- MODULE Spec2Model ----------------------------
(***************************************************************************)
(* A model of the lot-selection and tax-optimisation engine of the        *)
(* DirectIndexing repository.                                              *)
(*                                                                         *)
(*   - select_sells (src/src/portfolio/liquidation.py): the sell-lot      *)
(*     selection engine, one step per consumed candidate;                  *)
(*   - identify_candidates (src/src/portfolio/tlh.py): the TLH candidate  *)
(*     selector, one step per emitted candidate.                           *)
(*                                                                         *)
(* Python floats are modelled as exact rationals <<n, d>> in lowest terms  *)
(* with d > 0: every arithmetic expression of the source is evaluated as   *)
(* written, without rounding error.                                        *)
(***************************************************************************)
EXTENDS Integers, Sequences, FiniteSets, TLC

(***************************************************************************)
(* Exact rational arithmetic standing for Python float arithmetic.         *)
(***************************************************************************)
Abs(n) == IF n < 0 THEN -n ELSE n

RECURSIVE GCD(_, _)
GCD(a, b) == IF b = 0 THEN a ELSE GCD(b, a % b)

Rat(n, d) ==
    LET g == GCD(Abs(n), Abs(d))
        s == IF d < 0 THEN -1 ELSE 1
    IN  <<(s * n) \div g, (s * d) \div g>>

R(n) == <<n, 1>>
RZero == R(0)
RAdd(a, b) == Rat(a[1] * b[2] + b[1] * a[2], a[2] * b[2])
RSub(a, b) == Rat(a[1] * b[2] - b[1] * a[2], a[2] * b[2])
RMul(a, b) == Rat(a[1] * b[1], a[2] * b[2])
RDiv(a, b) == Rat(a[1] * b[2], a[2] * b[1])
RNeg(a) == <<-a[1], a[2]>>
RAbs(a) == <<Abs(a[1]), a[2]>>
RLt(a, b) == a[1] * b[2] < b[1] * a[2]
RLe(a, b) == a[1] * b[2] <= b[1] * a[2]
RMin(a, b) == IF RLe(a, b) THEN a ELSE b
RMax(a, b) == IF RLe(a, b) THEN b ELSE a

RECURSIVE RSum(_)
RSum(s) == IF s = <<>> THEN RZero ELSE RAdd(Head(s), RSum(Tail(s)))

Range(f) == {f[i] : i \in DOMAIN f}

(***************************************************************************)
(* list.sort(key=...): keys[i] is the key of s[i], a tuple of rationals    *)
(* compared as Python compares tuples.  Python's sort is stable, so the    *)
(* element at place k of the result is the one with k-1 elements before    *)
(* it, counting the elements with a smaller key and the earlier elements   *)
(* with an equal key.                                                      *)
(***************************************************************************)
RECURSIVE LexLt(_, _)
LexLt(a, b) ==
    IF a = <<>> \/ b = <<>> THEN FALSE
    ELSE IF RLt(Head(a), Head(b)) THEN TRUE
    ELSE IF RLt(Head(b), Head(a)) THEN FALSE
    ELSE LexLt(Tail(a), Tail(b))

StableSort(s, keys) ==
    LET n == Len(s)
        Before(j, i) == LexLt(keys[j], keys[i]) \/ (~LexLt(keys[i], keys[j]) /\ j < i)
        Rank(i) == Cardinality({j \in 1..n : Before(j, i)}) + 1
    IN  [k \in 1..n |-> s[CHOOSE i \in 1..n : Rank(i) = k]]

\* The list and its keys are evaluated once, before they are sorted.
SortedByKey(s, keys) == StableSort(s \o <<>>, keys \o <<>>)

(***************************************************************************)
(* Data model (src/src/models.py).                                        *)
(***************************************************************************)
SHORT == "ST"
LONG == "LT"

\* Lot.derive_term: LONG when the lot was acquired 365 days ago or earlier.
derive_term(days_held) == IF days_held >= 365 THEN LONG ELSE SHORT

Lot(id, symbol, days_held, qty, basis_total) ==
    [lot_id |-> id, symbol |-> symbol, days_held |-> days_held, qty |-> qty,
     basis_total |-> basis_total, term |-> derive_term(days_held)]

(***************************************************************************)
(* Inputs of the model.  A pool is a list of at most MaxLots lots, each    *)
(* one of the shapes of LotShapes; the lot at place i has lot_id i.        *)
(***************************************************************************)
MaxLots == 3

Symbols == {"AAA", "BBB"}

\* price_lookup(holdings): the last known price of each symbol.
PriceMap == [AAA |-> 10, BBB |-> 7]

\* Shares per lot of each symbol, and the cost bases a lot can have: for
\* AAA (30 of proceeds) a 15 loss, a zero gain and a 10 gain; for BBB (14 of
\* proceeds) a 6 loss and a 7 gain.
QtyOf == [AAA |-> 3, BBB |-> 2]
BasisChoices == [AAA |-> {45, 30, 20}, BBB |-> {20, 7}]
DaysHeldChoices == {30, 800}

LotShapes ==
    UNION {{[symbol |-> s, days_held |-> d, basis_total |-> b] :
                d \in DaysHeldChoices, b \in BasisChoices[s]} : s \in Symbols}

Pools ==
    UNION {[1..n -> LotShapes] : n \in 0..MaxLots}

LotsOf(pool) ==
    [i \in 1..Len(pool) |->
        Lot(i, pool[i].symbol, pool[i].days_held, QtyOf[pool[i].symbol], pool[i].basis_total)]

\* Dollar targets: negative, zero, less than any lot, and the proceeds of
\* an AAA lot and a BBB lot together.
TargetChoices == {-5, 0, 5, 44}

\* TaxRates: the defaults (0.32, 0.15, 0.05) and the all-zero rates.
DefaultTaxRates == [short_term |-> Rat(32, 100), long_term |-> Rat(15, 100), state |-> Rat(5, 100)]
ZeroTaxRates == [short_term |-> RZero, long_term |-> RZero, state |-> RZero]

\* The RealizedSummary (ytd_realized_st, ytd_realized_lt) and the TaxRates of a call.
TaxContextChoices ==
    {[summary |-> [ytd_realized_st |-> R(-5), ytd_realized_lt |-> R(0)], tax_rates |-> ZeroTaxRates],
     [summary |-> [ytd_realized_st |-> R(4), ytd_realized_lt |-> R(100)], tax_rates |-> DefaultTaxRates],
     [summary |-> [ytd_realized_st |-> R(100), ytd_realized_lt |-> R(4)], tax_rates |-> DefaultTaxRates]}

\* liquidation.py 13: the value of a loss carried forward, against one used now
LOSS_CARRY_FULL == R(1)

LOSS_CARRY_DISCOUNT == Rat(1, 2)

\* symbol -> portfolio weight; a symbol that is no key has weight 0.0.
NoWeights == <<>>
SomeWeights == [AAA |-> Rat(3, 4), BBB |-> Rat(1, 4)]

\* The liquidation goal and the symbol weights of a call.
GoalChoices ==
    {[goal |-> "min_tax", symbol_weight |-> SomeWeights],
     [goal |-> "balanced", symbol_weight |-> SomeWeights],
     [goal |-> "min_drift", symbol_weight |-> SomeWeights],
     [goal |-> "min_drift", symbol_weight |-> NoWeights]}

(***************************************************************************)
(* build_sell_candidates (liquidation.py): one candidate per lot that is   *)
(* not excluded and has a price.  Lot.acquired_date is a required field,   *)
(* so the missing-date branch never runs.                                  *)
(***************************************************************************)
\* str.upper on the symbols of the model.
Upper(sym) ==
    CASE sym = "aaa" -> "AAA"
      [] sym = "bbb" -> "BBB"
      [] OTHER -> sym

Candidate(lot, price) ==
    [lot |-> lot, price |-> R(price), proceeds |-> R(price * lot.qty),
     gain |-> R(price * lot.qty - lot.basis_total)]

HasPrice(price_map, sym) == sym \in DOMAIN price_map /\ price_map[sym] > 0

RECURSIVE build_sell_candidates(_, _, _)
build_sell_candidates(lots, price_map, exclude_set) ==
    IF lots = <<>> THEN <<>>
    ELSE LET lot == Head(lots)
             rest == build_sell_candidates(Tail(lots), price_map, exclude_set)
         IN  IF Upper(lot.symbol) \in exclude_set THEN rest
             ELSE IF ~HasPrice(price_map, lot.symbol) THEN rest
             ELSE <<Candidate(lot, price_map[lot.symbol])>> \o rest

(***************************************************************************)
(* select_sells (liquidation.py): bucketing, ordering, tax estimation.     *)
(***************************************************************************)
\* liquidation.py 125
bucket_order_gains_first == <<"gain_lt", "gain_st", "loss_st", "loss_lt">>

bucket_order == <<"loss_st", "loss_lt", "gain_lt", "gain_st">>

\* liquidation.py 113-117
BucketKeyZeroDropped(cand) ==
    IF RLt(cand.gain, RZero)
    THEN (IF cand.lot.term = SHORT THEN "loss_st" ELSE "loss_lt")
    ELSE IF cand.gain = RZero THEN "none"
    ELSE (IF cand.lot.term = LONG THEN "gain_lt" ELSE "gain_st")

BucketKey(cand) ==
    IF RLt(cand.gain, RZero)
    THEN (IF cand.lot.term = SHORT THEN "loss_st" ELSE "loss_lt")
    ELSE (IF cand.lot.term = LONG THEN "gain_lt" ELSE "gain_st")

\* liquidation.py 186-190
gain_sort_key(cand) ==
    LET proceeds == IF cand.proceeds = RZero THEN R(1) ELSE cand.proceeds
        ratio == IF proceeds # RZero THEN RDiv(cand.gain, proceeds) ELSE cand.gain
    IN  <<ratio, cand.gain>>

\* liquidation.py 193-195
gain_ratio(cand) ==
    LET proceeds == IF cand.proceeds = RZero THEN Rat(1, 100000000) ELSE cand.proceeds
    IN  RDiv(cand.gain, proceeds)

WeightGet(weights, sym) == IF sym \in DOMAIN weights THEN weights[sym] ELSE RZero

\* liquidation.py 198-204
drift_penalty(cand, weights, target) ==
    IF RLe(target, RZero) THEN RAbs(WeightGet(weights, cand.lot.symbol))
    ELSE RAbs(RSub(RDiv(cand.proceeds, target), WeightGet(weights, cand.lot.symbol)))

\* liquidation.py 111-123: the four buckets in their baseline order.
BaselineSorted(members, key) ==
    SortedByKey(members,
        [i \in 1..Len(members) |->
            IF key \in {"loss_st", "loss_lt"} THEN <<members[i].gain>>
            ELSE gain_sort_key(members[i])])

BaselineBucket(cands, key) ==
    BaselineSorted(SelectSeq(cands, LAMBDA c : BucketKey(c) = key), key)

\* liquidation.py 134-140: the goal's re-sort of one bucket.
GoalSortedBaseline(entries_, goal_, weights, target) == entries_

GoalSorted(entries_, goal_, weights, target) ==
    IF goal_ = "min_drift"
    THEN SortedByKey(entries_,
            [i \in 1..Len(entries_) |-> <<drift_penalty(entries_[i], weights, target)>>])
    ELSE IF goal_ = "balanced"
    THEN SortedByKey(entries_,
            [i \in 1..Len(entries_) |->
                <<RAdd(RMul(Rat(1, 2), gain_ratio(entries_[i])),
                       RMul(Rat(1, 2), drift_penalty(entries_[i], weights, target)))>>])
    ELSE entries_

\* liquidation.py 223, 231: the part of a loss the offset pool covers.
LossOffsetUncapped(loss, pool_left) == loss

LossOffset(loss, pool_left) == RMin(loss, pool_left)

\* liquidation.py 238: a loss sale reports its benefit as a negative tax.
TaxOfBenefitUnsigned(benefit) == benefit

TaxOfBenefit(benefit) == RNeg(benefit)

\* liquidation.py 207-242: the estimated tax, the rationale and the offsets left.
estimate_tax_and_rationale(gain, term, rates, offs, bucket_) ==
    LET rationale == IF bucket_ \in {"loss_st", "loss_lt"}
                     THEN <<"Loss lot offsets realized gains">>
                     ELSE IF term = LONG THEN <<"Long-term gain lot">>
                     ELSE <<"Short-term gain lot">>
    IN  IF RLt(gain, RZero)
        THEN LET loss == RNeg(gain)
                 pool == IF term = SHORT THEN "st" ELSE "lt"
                 rate == IF term = SHORT THEN rates.short_term ELSE rates.long_term
                 offset == LossOffset(loss, offs[pool])
                 carry == RSub(loss, offset)
                 benefit == RAdd(RMul(offset, RAdd(rate, rates.state)),
                                 RMul(carry, RMul(RAdd(rate, rates.state), LOSS_CARRY_DISCOUNT)))
             IN  [tax |-> TaxOfBenefit(benefit), rationale |-> rationale,
                  offsets |-> [offs EXCEPT ![pool] = RSub(offs[pool], offset)]]
        ELSE LET rate == IF term = LONG THEN rates.long_term ELSE rates.short_term
             IN  [tax |-> RMul(gain, RAdd(rate, rates.state)), rationale |-> rationale,
                  offsets |-> offs]

(***************************************************************************)
(* State.  The first group is one call of select_sells and the planner     *)
(* step that follows it; the second group is one call of                   *)
(* identify_candidates.                                                    *)
(***************************************************************************)
VARIABLES
    pc,             \* "start", "loop", "done", "returned"; "idle" when no call is modelled
    candidates,     \* argument: the candidate pool
    target_amount,  \* argument
    summary,        \* argument: the RealizedSummary
    tax_rates,      \* argument
    goal,           \* argument
    symbol_weight,  \* argument
    loss_buckets,   \* local: bucket name -> list of candidates
    bucket,         \* local: place in bucket_order of the bucket being consumed
    entries,        \* local: the entries of that bucket, in the goal's order
    idx,            \* local: place in entries of the next candidate
    offsets,        \* local: the loss-offset pools "st" and "lt"
    remaining,      \* local: dollars still to raise
    sells,          \* result: list of SellLotRecommendation
    warnings,       \* result: list of warnings
    plan_warnings,  \* the warnings of the plan the planner returns
    tlh_pc,         \* "start", "loop", "done"; "idle" when no call is modelled
    tlh_args,       \* the arguments of identify_candidates
    tlh_candidates, \* local: the candidates that pass the filter, sorted
    tlh_idx,        \* local: place in tlh_candidates of the next candidate
    cumulative_loss, \* local
    filtered,       \* result: the candidates returned
    plan_in,        \* the arguments of a planner call; <<>> when none is modelled
    plan_out,       \* the amounts the planner computes and reports
    call_pc,        \* "call", "returned", or which call of a sequence runs; "idle" when none
    call_in,        \* the arguments of a function call
    call_out        \* its result

sellVars ==
    <<pc, candidates, target_amount, summary, tax_rates, goal, symbol_weight,
      loss_buckets, bucket, entries, idx, offsets, remaining, sells, warnings,
      plan_warnings>>

sellArgs == <<candidates, target_amount, summary, tax_rates, goal, symbol_weight>>

tlhVars == <<tlh_pc, tlh_args, tlh_candidates, tlh_idx, cumulative_loss, filtered>>

planVars == <<plan_in, plan_out>>

callVars == <<call_pc, call_in, call_out>>

vars == <<sellVars, tlhVars, planVars, callVars>>

NoBuckets == [k \in {"loss_st", "loss_lt", "gain_lt", "gain_st"} |-> <<>>]

SellInit ==
    /\ pc = "start"
    /\ \E pool \in Pools : candidates = build_sell_candidates(LotsOf(pool), PriceMap, {})
    /\ \E t \in TargetChoices : target_amount = R(t)
    /\ \E ctx \in TaxContextChoices :
          /\ summary = ctx.summary
          /\ tax_rates = ctx.tax_rates
    /\ \E g \in GoalChoices :
          /\ goal = g.goal
          /\ symbol_weight = g.symbol_weight
    /\ loss_buckets = NoBuckets
    /\ bucket = 0
    /\ entries = <<>>
    /\ idx = 0
    /\ offsets = [st |-> RZero, lt |-> RZero]
    /\ remaining = RZero
    /\ sells = <<>>
    /\ warnings = <<>>
    /\ plan_warnings = <<>>

\* The first bucket after place b of bucket_order that has entries; 5 when none has.
NextBucket(buckets, b) ==
    IF \E k \in (b + 1)..4 : buckets[bucket_order[k]] # <<>>
    THEN CHOOSE k \in (b + 1)..4 :
            /\ buckets[bucket_order[k]] # <<>>
            /\ \A j \in (b + 1)..(k - 1) : buckets[bucket_order[j]] = <<>>
    ELSE 5

EntriesOf(buckets, b) ==
    IF b \in 1..4 THEN GoalSorted(buckets[bucket_order[b]], goal, symbol_weight, target_amount)
    ELSE <<>>

\* liquidation.py 99: what the degenerate call returns.
DegenerateResultWarns ==
    [sells |-> <<>>, warnings |-> <<"Reached end of candidates before hitting target.">>]

DegenerateResult == [sells |-> <<>>, warnings |-> <<>>]

\* liquidation.py 142, 177: "if remaining <= 0: break".
TargetMetNever(remaining_) == FALSE

TargetMet(remaining_) == RLe(remaining_, RZero)

\* liquidation.py 180-181: the warning of a call that ends short of its target.
FinishWarningsNotOver(warnings_, remaining_) ==
    IF RLe(RZero, remaining_)
    THEN Append(warnings_, "Reached end of candidates before hitting target.")
    ELSE warnings_

FinishWarnings(warnings_, remaining_) ==
    IF RLt(RZero, remaining_)
    THEN Append(warnings_, "Reached end of candidates before hitting target.")
    ELSE warnings_

\* liquidation.py 125-128: the offset pools of a call are built from its
\* summary, whatever the pools of an earlier call were left at.
InitialOffsetsCarried(summary_, left_over) ==
    [st |-> RAdd(RMax(RZero, summary_.ytd_realized_st), left_over.st),
     lt |-> RAdd(RMax(RZero, summary_.ytd_realized_lt), left_over.lt)]

InitialOffsets(summary_, left_over) ==
    [st |-> RMax(RZero, summary_.ytd_realized_st),
     lt |-> RMax(RZero, summary_.ytd_realized_lt)]

\* liquidation.py 98-99: the degenerate call returns no sells and no warnings.
SellReturnEmpty ==
    /\ pc = "start"
    /\ RLe(target_amount, RZero)
    /\ pc' = "done"
    /\ sells' = DegenerateResult.sells
    /\ warnings' = DegenerateResult.warnings
    /\ UNCHANGED <<sellArgs, loss_buckets, bucket, entries, idx, offsets, remaining, plan_warnings>>
    /\ UNCHANGED <<tlhVars, planVars, callVars>>

\* liquidation.py 101-133: bucket the candidates, sort each bucket, seed the
\* offsets, and enter the first bucket that has entries.
SellStart ==
    /\ pc = "start"
    /\ ~RLe(target_amount, RZero)
    /\ LET buckets == [k \in DOMAIN NoBuckets |-> BaselineBucket(candidates, k)]
           b == NextBucket(buckets, 0)
       IN  /\ loss_buckets' = buckets
           /\ bucket' = b
           /\ entries' = EntriesOf(buckets, b)
    /\ idx' = 1
    /\ offsets' = InitialOffsets(summary, offsets)
    /\ remaining' = target_amount
    /\ sells' = <<>>
    /\ warnings' = <<>>
    /\ pc' = "loop"
    /\ UNCHANGED <<sellArgs, plan_warnings>>
    /\ UNCHANGED <<tlhVars, planVars, callVars>>

\* liquidation.py 144-153: the quantity, proceeds, basis and gain of one sale.
SaleOfWholeBasis(cand, remaining_) ==
    LET lot == cand.lot
        price == cand.price
        full == RMul(price, R(lot.qty))
        partial == RLt(remaining_, full) /\ RLt(RZero, price)
        qty_to_sell == IF partial THEN RDiv(remaining_, price) ELSE R(lot.qty)
        proceeds == IF partial THEN RMul(qty_to_sell, price) ELSE full
        basis == R(lot.basis_total)
    IN  [qty |-> qty_to_sell, proceeds |-> proceeds, basis |-> basis,
         gain |-> RSub(proceeds, basis)]

SaleOfWholeLot(cand, remaining_) ==
    LET lot == cand.lot
        full == RMul(cand.price, R(lot.qty))
        basis == R(lot.basis_total)
    IN  [qty |-> R(lot.qty), proceeds |-> full, basis |-> basis, gain |-> RSub(full, basis)]

SaleOf(cand, remaining_) ==
    LET lot == cand.lot
        price == cand.price
        full == RMul(price, R(lot.qty))
        partial == RLt(remaining_, full) /\ RLt(RZero, price)
        qty_to_sell == IF partial THEN RDiv(remaining_, price) ELSE R(lot.qty)
        proceeds == IF partial THEN RMul(qty_to_sell, price) ELSE full
        basis == RMul(R(lot.basis_total), RDiv(qty_to_sell, R(lot.qty)))
    IN  [qty |-> qty_to_sell, proceeds |-> proceeds, basis |-> basis,
         gain |-> RSub(proceeds, basis)]

\* liquidation.py 141-178: one pass of the inner loop, and the move to the
\* next candidate (of this bucket, or of the next bucket that has entries).
SellNext ==
    /\ pc = "loop"
    /\ bucket \in 1..4
    /\ idx <= Len(entries)
    /\ ~TargetMet(remaining)
    /\ LET cand == entries[idx]
           lot == cand.lot
           sale == SaleOf(cand, remaining)
           est == estimate_tax_and_rationale(sale.gain, lot.term, tax_rates, offsets,
                                             bucket_order[bucket])
           left == RSub(remaining, sale.proceeds)
       IN  /\ sells' = Append(sells,
                  [symbol |-> lot.symbol, lot_id |-> lot.lot_id, days_held |-> lot.days_held,
                   qty |-> sale.qty, price |-> cand.price, proceeds |-> sale.proceeds,
                   basis |-> sale.basis, gain_loss |-> sale.gain, term |-> lot.term,
                   estimated_tax |-> est.tax, rationale |-> est.rationale])
           /\ offsets' = est.offsets
           /\ remaining' = left
           /\ IF TargetMet(left) \/ idx < Len(entries)
              THEN /\ idx' = idx + 1
                   /\ UNCHANGED <<bucket, entries>>
              ELSE /\ bucket' = NextBucket(loss_buckets, bucket)
                   /\ entries' = EntriesOf(loss_buckets, NextBucket(loss_buckets, bucket))
                   /\ idx' = 1
    /\ UNCHANGED <<pc, sellArgs, loss_buckets, warnings, plan_warnings>>
    /\ UNCHANGED <<tlhVars, planVars, callVars>>

\* liquidation.py 142-143, 177-183: the loops end and the call returns.
SellFinish ==
    /\ pc = "loop"
    /\ (bucket = 5 \/ TargetMet(remaining))
    /\ warnings' = FinishWarnings(warnings, remaining)
    /\ pc' = "done"
    /\ UNCHANGED <<sellArgs, loss_buckets, bucket, entries, idx, offsets, remaining, sells,
                   plan_warnings>>
    /\ UNCHANGED <<tlhVars, planVars, callVars>>

TotalProceeds(ss) == RSum([i \in 1..Len(ss) |-> ss[i].proceeds])

\* transition.py 80-92: the planner passes cash_needed_from_sales, which is
\* max(0.0, ...) and so never negative, extends the warnings of
\* build_sell_candidates with the selector's, and adds its own warning.
PlanReturn ==
    /\ pc = "done"
    /\ RLe(RZero, target_amount)
    /\ plan_warnings' =
          IF RLt(RZero, target_amount) /\ RLt(TotalProceeds(sells), target_amount)
          THEN Append(plan_warnings \o warnings,
                      "Unable to fully fund strategy allocation with available lots.")
          ELSE plan_warnings \o warnings
    /\ pc' = "returned"
    /\ UNCHANGED <<sellArgs, loss_buckets, bucket, entries, idx, offsets, remaining, sells,
                   warnings>>
    /\ UNCHANGED <<tlhVars, planVars, callVars>>

SellNextStep == SellReturnEmpty \/ SellStart \/ SellNext \/ SellFinish \/ PlanReturn

\* No planner call is modelled.
PlanIdle ==
    /\ plan_in = <<>>
    /\ plan_out = <<>>

\* No function call is modelled.
CallIdle ==
    /\ call_pc = "idle"
    /\ call_in = <<>>
    /\ call_out = <<>>

\* No call of select_sells is modelled.
SellIdle ==
    /\ pc = "idle"
    /\ candidates = <<>>
    /\ target_amount = RZero
    /\ summary = [ytd_realized_st |-> RZero, ytd_realized_lt |-> RZero]
    /\ tax_rates = DefaultTaxRates
    /\ goal = "min_tax"
    /\ symbol_weight = NoWeights
    /\ loss_buckets = NoBuckets
    /\ bucket = 0
    /\ entries = <<>>
    /\ idx = 0
    /\ offsets = [st |-> RZero, lt |-> RZero]
    /\ remaining = RZero
    /\ sells = <<>>
    /\ warnings = <<>>
    /\ plan_warnings = <<>>

(***************************************************************************)
(* The planners' view of the account (src/src/models.py Holding,           *)
(* src/src/portfolio/analytics.py, liquidation.py).  An Optional value is  *)
(* a sequence: <<>> for None, <<v>> for v.                                 *)
(***************************************************************************)
Holding(symbol, qty, price, market_value, is_cash_equivalent) ==
    [symbol |-> symbol, qty |-> qty, price |-> price, market_value |-> market_value,
     is_cash_equivalent |-> is_cash_equivalent]

\* analytics.py 17-26; the holdings of the model have market_value a
\* multiple of qty, so market_value / qty is exact.
RECURSIVE price_lookup(_)
price_lookup(holdings) ==
    IF holdings = <<>> THEN <<>>
    ELSE LET h == holdings[Len(holdings)]
             earlier == price_lookup(SubSeq(holdings, 1, Len(holdings) - 1))
         IN  IF h.is_cash_equivalent THEN earlier
             ELSE IF h.price # <<>> /\ h.price[1] > 0
             THEN (h.symbol :> h.price[1]) @@ earlier
             ELSE IF h.market_value # <<>> /\ h.qty # 0
             THEN (h.symbol :> (h.market_value[1] \div h.qty)) @@ earlier
             ELSE earlier

\* liquidation.py 32-36: what a holding adds to the available cash.
CashValue(h) ==
    IF ~h.is_cash_equivalent THEN 0
    ELSE IF h.market_value # <<>> THEN h.market_value[1]
    ELSE IF h.price # <<>> THEN h.price[1] * h.qty
    ELSE 0

RECURSIVE SumCashValue(_)
SumCashValue(holdings) ==
    IF holdings = <<>> THEN 0 ELSE CashValue(Head(holdings)) + SumCashValue(Tail(holdings))

\* liquidation.py 23-37
estimate_available_cash(holdings, manual_cash, include_cash_equivalents) ==
    IF ~include_cash_equivalents THEN manual_cash
    ELSE manual_cash + SumCashValue(holdings)

\* liquidation.py 76, 83: the value of a holding in the weights.
HoldingValue(h) ==
    IF h.market_value # <<>> THEN h.market_value[1]
    ELSE (IF h.price # <<>> THEN h.price[1] ELSE 0) * h.qty

RECURSIVE SumHoldingValue(_)
SumHoldingValue(holdings) ==
    IF holdings = <<>> THEN 0
    ELSE HoldingValue(Head(holdings)) + SumHoldingValue(Tail(holdings))

\* liquidation.py 74-87; a symbol held twice keeps its last holding's weight.
compute_symbol_weights(holdings) ==
    LET total_value == SumHoldingValue(holdings)
        LastOf(sym) == CHOOSE i \in 1..Len(holdings) :
                          /\ holdings[i].symbol = sym
                          /\ \A j \in (i + 1)..Len(holdings) : holdings[j].symbol # sym
    IN  IF total_value = 0 THEN <<>>
        ELSE [sym \in {holdings[i].symbol : i \in 1..Len(holdings)} |->
                 Rat(HoldingValue(holdings[LastOf(sym)]), total_value)]

\* models.py 233-238: StrategyAllocationRequest upper-cases the exclusions.
normalize_symbols(v) == [i \in 1..Len(v) |-> Upper(v[i])]

\* liquidation.py 49-62: the warnings of build_sell_candidates, one per lot
\* that is not excluded and has no price.
RECURSIVE build_sell_warnings(_, _, _)
build_sell_warnings(lots, price_map, exclude_set) ==
    IF lots = <<>> THEN <<>>
    ELSE LET lot == Head(lots)
             rest == build_sell_warnings(Tail(lots), price_map, exclude_set)
         IN  IF Upper(lot.symbol) \in exclude_set THEN rest
             ELSE IF ~HasPrice(price_map, lot.symbol)
             THEN <<<<"Skipping lot: missing current price", lot.lot_id, lot.symbol>>>> \o rest
             ELSE rest

\* transition.py 65-71: the exclusions, with the cash equivalents when they
\* are used as cash.
TransitionExclusions(request, holdings) ==
    Range(normalize_symbols(request.excluded_from_selling))
    \cup (IF request.use_cash_equivalents_first
          THEN {holdings[i].symbol : i \in {j \in 1..Len(holdings) : holdings[j].is_cash_equivalent}}
          ELSE {})

\* transition.py 51-54
TransitionBuffer(request) ==
    IF request.cash_buffer_amount # <<>> THEN R(request.cash_buffer_amount[1])
    ELSE IF request.cash_buffer_pct # <<>>
    THEN RMul(R(request.allocation_amount), request.cash_buffer_pct[1])
    ELSE RZero

\* transition.py 63
CashNeededUnclamped(total_need, cash_available) == RSub(total_need, cash_available)

CashNeeded(total_need, cash_available) == RMax(RZero, RSub(total_need, cash_available))

\* transition.py 48-87: build_transition_plan up to its call of select_sells.
TransitionStart ==
    /\ pc = "plan"
    /\ plan_in.planner = "transition"
    /\ LET request == plan_in.request
           holdings == plan_in.holdings
           buffer_amount == TransitionBuffer(request)
           cash_available == R(estimate_available_cash(holdings,
                                   request.manual_cash_available,
                                   request.use_cash_equivalents_first))
           total_need == RAdd(R(request.allocation_amount), buffer_amount)
           cash_needed_from_sales == CashNeeded(total_need, cash_available)
           exclude_set == {Upper(sym) : sym \in TransitionExclusions(request, holdings)}
       IN  /\ plan_out' = [buffer_amount |-> buffer_amount,
                           cash_available |-> cash_available,
                           cash_used |-> RMin(cash_available, total_need),
                           cash_needed_from_sales |-> cash_needed_from_sales]
           /\ candidates' = build_sell_candidates(plan_in.lots, price_lookup(holdings),
                                                  exclude_set)
           /\ plan_warnings' = build_sell_warnings(plan_in.lots, price_lookup(holdings),
                                                   exclude_set)
           /\ target_amount' = cash_needed_from_sales
           /\ summary' = plan_in.realized_summary
           /\ tax_rates' = request.tax_rates
           /\ goal' = request.liquidation_goal
           /\ symbol_weight' = compute_symbol_weights(holdings)
    /\ pc' = "start"
    /\ UNCHANGED <<loss_buckets, bucket, entries, idx, offsets, remaining, sells, warnings,
                   plan_in>>
    /\ UNCHANGED <<tlhVars, callVars>>

(***************************************************************************)
(* build_withdrawal_proposal (src/src/portfolio/withdrawals.py), which     *)
(* has its own copies of the candidate builder and of the selector.        *)
(***************************************************************************)
\* withdrawals.py 39-47
wd_estimate_available_cash(holdings, manual_cash) == manual_cash + SumCashValue(holdings)

\* withdrawals.py 120-152: the candidates, in lot order.
RECURSIVE wd_build_candidates_cased(_, _, _)
wd_build_candidates_cased(lots, price_map, exclude_symbols) ==
    IF lots = <<>> THEN <<>>
    ELSE LET lot == Head(lots)
             rest == wd_build_candidates_cased(Tail(lots), price_map, exclude_symbols)
         IN  IF lot.symbol \in Range(exclude_symbols) THEN rest
             ELSE IF ~HasPrice(price_map, lot.symbol) THEN rest
             ELSE <<[lot |-> lot, price |-> R(price_map[lot.symbol]),
                     proceeds |-> R(price_map[lot.symbol] * lot.qty),
                     gain |-> R(price_map[lot.symbol] * lot.qty - lot.basis_total)]>> \o rest

RECURSIVE wd_build_candidates(_, _, _)
wd_build_candidates(lots, price_map, exclude_symbols) ==
    IF lots = <<>> THEN <<>>
    ELSE LET lot == Head(lots)
             rest == wd_build_candidates(Tail(lots), price_map, exclude_symbols)
             exclude_set == {Upper(sym) : sym \in Range(exclude_symbols)}
         IN  IF Upper(lot.symbol) \in exclude_set THEN rest
             ELSE IF ~HasPrice(price_map, lot.symbol) THEN rest
             ELSE <<[lot |-> lot, price |-> R(price_map[lot.symbol]),
                     proceeds |-> R(price_map[lot.symbol] * lot.qty),
                     gain |-> R(price_map[lot.symbol] * lot.qty - lot.basis_total)]>> \o rest

\* withdrawals.py 130-141: its warnings.
RECURSIVE wd_build_warnings(_, _, _)
wd_build_warnings(lots, price_map, exclude_symbols) ==
    IF lots = <<>> THEN <<>>
    ELSE LET lot == Head(lots)
             rest == wd_build_warnings(Tail(lots), price_map, exclude_symbols)
             exclude_set == {Upper(sym) : sym \in Range(exclude_symbols)}
         IN  IF Upper(lot.symbol) \in exclude_set THEN rest
             ELSE IF ~HasPrice(price_map, lot.symbol)
             THEN <<<<"Skipping lot: missing current price", lot.lot_id, lot.symbol>>>> \o rest
             ELSE rest

\* withdrawals.py 369-382
wd_symbol_weights(holdings) ==
    LET total_value == SumHoldingValue(holdings)
        LastOf(sym) == CHOOSE i \in 1..Len(holdings) :
                          /\ holdings[i].symbol = sym
                          /\ \A j \in (i + 1)..Len(holdings) : holdings[j].symbol # sym
    IN  IF total_value = 0 THEN <<>>
        ELSE [sym \in {holdings[i].symbol : i \in 1..Len(holdings)} |->
                 Rat(HoldingValue(holdings[LastOf(sym)]), total_value)]

\* withdrawals.py 65
WithdrawalBuffer(withdrawal_amount, cushion_pct) ==
    RMax(RMul(R(withdrawal_amount), cushion_pct), RZero)

\* withdrawals.py 66
WithdrawalTargetNoBuffer(withdrawal_amount, buffer_amount, cash_available) ==
    RMax(RZero, RSub(R(withdrawal_amount), cash_available))

WithdrawalTarget(withdrawal_amount, buffer_amount, cash_available) ==
    RMax(RZero, RSub(RAdd(R(withdrawal_amount), buffer_amount), cash_available))

\* withdrawals.py 62-84: build_withdrawal_proposal up to its call of _select_sells.
WithdrawalStart ==
    /\ pc = "plan"
    /\ plan_in.planner = "withdrawal"
    /\ LET holdings == plan_in.holdings
           price_map == price_lookup(holdings)
           cash_available == R(wd_estimate_available_cash(holdings, plan_in.manual_cash))
           buffer_amount == WithdrawalBuffer(plan_in.withdrawal_amount, plan_in.cushion_pct)
           target == WithdrawalTarget(plan_in.withdrawal_amount, buffer_amount, cash_available)
       IN  /\ plan_out' = [requested_amount |-> R(plan_in.withdrawal_amount),
                           buffer_amount |-> buffer_amount,
                           cash_available |-> cash_available,
                           amount_needed_from_sales |-> target]
           /\ candidates' = wd_build_candidates(plan_in.lots, price_map,
                                                plan_in.exclude_symbols)
           /\ plan_warnings' = wd_build_warnings(plan_in.lots, price_map,
                                                 plan_in.exclude_symbols)
           /\ target_amount' = target
           /\ summary' = plan_in.realized_summary
           /\ tax_rates' = plan_in.tax_rates
           /\ goal' = plan_in.goal
           /\ symbol_weight' = wd_symbol_weights(holdings)
    /\ pc' = "wd_start"
    /\ UNCHANGED <<loss_buckets, bucket, entries, idx, offsets, remaining, sells, warnings,
                   plan_in>>
    /\ UNCHANGED <<tlhVars, callVars>>

(***************************************************************************)
(* _select_sells (withdrawals.py 155-265) and its helpers.                 *)
(***************************************************************************)
\* withdrawals.py 196-201
wd_bucket_order_long_first == <<"loss_lt", "loss_st", "gain_lt", "gain_st">>

wd_bucket_order == <<"loss_st", "loss_lt", "gain_lt", "gain_st">>

\* withdrawals.py 176-188
wd_BucketKey(cand) ==
    IF RLt(cand.gain, RZero)
    THEN (IF cand.lot.term = SHORT THEN "loss_st" ELSE "loss_lt")
    ELSE (IF cand.lot.term = LONG THEN "gain_lt" ELSE "gain_st")

\* withdrawals.py 268-273
wd_gain_sort_key(cand) ==
    LET proceeds == IF cand.proceeds = RZero THEN R(1) ELSE cand.proceeds
        ratio == IF proceeds # RZero THEN RDiv(cand.gain, proceeds) ELSE cand.gain
    IN  <<ratio, cand.gain>>

\* withdrawals.py 276-279
wd_gain_ratio(cand) ==
    LET proceeds == IF cand.proceeds = RZero THEN Rat(1, 1000000) ELSE cand.proceeds
    IN  RDiv(cand.gain, proceeds)

\* withdrawals.py 282-288
wd_drift_penalty(cand, weights, target) ==
    IF RLe(target, RZero) THEN RAbs(WeightGet(weights, cand.lot.symbol))
    ELSE RAbs(RSub(RDiv(cand.proceeds, target), WeightGet(weights, cand.lot.symbol)))

\* withdrawals.py 191-194
wd_BaselineSorted(members, key) ==
    SortedByKey(members,
        [i \in 1..Len(members) |->
            IF key \in {"loss_st", "loss_lt"} THEN <<members[i].gain>>
            ELSE wd_gain_sort_key(members[i])])

\* withdrawals.py 176-194
wd_BaselineBucket(cands, key) ==
    wd_BaselineSorted(SelectSeq(cands, LAMBDA c : wd_BucketKey(c) = key), key)

\* withdrawals.py 212-221
wd_GoalSorted(entries_, goal_, weights, target) ==
    IF goal_ = "min_drift"
    THEN SortedByKey(entries_,
            [i \in 1..Len(entries_) |-> <<wd_drift_penalty(entries_[i], weights, target)>>])
    ELSE IF goal_ = "balanced"
    THEN SortedByKey(entries_,
            [i \in 1..Len(entries_) |->
                <<RAdd(RMul(Rat(1, 2), wd_gain_ratio(entries_[i])),
                       RMul(Rat(1, 2), wd_drift_penalty(entries_[i], weights, target)))>>])
    ELSE entries_

\* withdrawals.py 291-329
wd_estimate_tax_and_rationale(gain, term, rates, offs, bucket_) ==
    LET rationale == IF bucket_ \in {"loss_st", "loss_lt"}
                     THEN <<"Loss lot to offset existing gains">>
                     ELSE IF term = LONG THEN <<"Long-term gain lot (lower rate)">>
                     ELSE <<"Short-term gain lot (last resort)">>
    IN  IF RLt(gain, RZero)
        THEN LET loss == RNeg(gain)
                 pool == IF term = SHORT THEN "st" ELSE "lt"
                 rate == IF term = SHORT THEN rates.short_term ELSE rates.long_term
                 offset == RMin(loss, offs[pool])
                 carry == RSub(loss, offset)
                 benefit == RAdd(RMul(offset, RAdd(rate, rates.state)),
                                 RMul(carry, RMul(RAdd(rate, rates.state), Rat(1, 2))))
             IN  [tax |-> RNeg(benefit), rationale |-> rationale,
                  offsets |-> [offs EXCEPT ![pool] = RSub(offs[pool], offset)]]
        ELSE LET rate == IF term = LONG THEN rates.long_term ELSE rates.short_term
             IN  [tax |-> RMul(gain, RAdd(rate, rates.state)), rationale |-> rationale,
                  offsets |-> offs]

\* The first bucket after place b of wd_bucket_order that has entries; 5 when none has.
wd_NextBucket(buckets, b) ==
    IF \E k \in (b + 1)..4 : buckets[wd_bucket_order[k]] # <<>>
    THEN CHOOSE k \in (b + 1)..4 :
            /\ buckets[wd_bucket_order[k]] # <<>>
            /\ \A j \in (b + 1)..(k - 1) : buckets[wd_bucket_order[j]] = <<>>
    ELSE 5

wd_EntriesOf(buckets, b) ==
    IF b \in 1..4 THEN wd_GoalSorted(buckets[wd_bucket_order[b]], goal, symbol_weight, target_amount)
    ELSE <<>>

\* withdrawals.py 163-164
WdReturnEmpty ==
    /\ pc = "wd_start"
    /\ RLe(target_amount, RZero)
    /\ pc' = "wd_done"
    /\ sells' = <<>>
    /\ warnings' = <<>>
    /\ UNCHANGED <<sellArgs, loss_buckets, bucket, entries, idx, offsets, remaining, plan_warnings>>
    /\ UNCHANGED <<tlhVars, planVars, callVars>>

\* withdrawals.py 166-211
WdStart ==
    /\ pc = "wd_start"
    /\ ~RLe(target_amount, RZero)
    /\ LET buckets == [k \in DOMAIN NoBuckets |-> wd_BaselineBucket(candidates, k)]
           b == wd_NextBucket(buckets, 0)
       IN  /\ loss_buckets' = buckets
           /\ bucket' = b
           /\ entries' = wd_EntriesOf(buckets, b)
    /\ idx' = 1
    /\ offsets' = [st |-> RMax(RZero, summary.ytd_realized_st),
                   lt |-> RMax(RZero, summary.ytd_realized_lt)]
    /\ remaining' = target_amount
    /\ sells' = <<>>
    /\ warnings' = <<>>
    /\ pc' = "wd_loop"
    /\ UNCHANGED <<sellArgs, plan_warnings>>
    /\ UNCHANGED <<tlhVars, planVars, callVars>>

\* withdrawals.py 225-235
wd_SaleOf(cand, remaining_) ==
    LET lot == cand.lot
        price == cand.price
        lot_proceeds == RMul(price, R(lot.qty))
        partial == RLt(remaining_, lot_proceeds) /\ RLt(RZero, price)
        qty_to_sell == IF partial THEN RDiv(remaining_, price) ELSE R(lot.qty)
        proceeds == IF partial THEN RMul(qty_to_sell, price) ELSE lot_proceeds
        basis == RMul(R(lot.basis_total), RDiv(qty_to_sell, R(lot.qty)))
    IN  [qty |-> qty_to_sell, proceeds |-> proceeds, basis |-> basis,
         gain |-> RSub(proceeds, basis)]

\* withdrawals.py 222-260
WdNext ==
    /\ pc = "wd_loop"
    /\ bucket \in 1..4
    /\ idx <= Len(entries)
    /\ ~RLe(remaining, RZero)
    /\ LET cand == entries[idx]
           lot == cand.lot
           sale == wd_SaleOf(cand, remaining)
           est == wd_estimate_tax_and_rationale(sale.gain, lot.term, tax_rates, offsets,
                                                wd_bucket_order[bucket])
           left == RSub(remaining, sale.proceeds)
       IN  /\ sells' = Append(sells,
                  [symbol |-> lot.symbol, lot_id |-> lot.lot_id, days_held |-> lot.days_held,
                   qty |-> sale.qty, price |-> cand.price, proceeds |-> sale.proceeds,
                   basis |-> sale.basis, gain_loss |-> sale.gain, term |-> lot.term,
                   estimated_tax |-> est.tax, rationale |-> est.rationale])
           /\ offsets' = est.offsets
           /\ remaining' = left
           /\ IF RLe(left, RZero) \/ idx < Len(entries)
              THEN /\ idx' = idx + 1
                   /\ UNCHANGED <<bucket, entries>>
              ELSE /\ bucket' = wd_NextBucket(loss_buckets, bucket)
                   /\ entries' = wd_EntriesOf(loss_buckets, wd_NextBucket(loss_buckets, bucket))
                   /\ idx' = 1
    /\ UNCHANGED <<pc, sellArgs, loss_buckets, warnings, plan_warnings>>
    /\ UNCHANGED <<tlhVars, planVars, callVars>>

\* withdrawals.py 223-224, 259-265
WdFinish ==
    /\ pc = "wd_loop"
    /\ (bucket = 5 \/ RLe(remaining, RZero))
    /\ warnings' = IF RLt(RZero, remaining)
                   THEN Append(warnings,
                          "Reached end of tax-efficient candidates before hitting target.")
                   ELSE warnings
    /\ pc' = "wd_done"
    /\ UNCHANGED <<sellArgs, loss_buckets, bucket, entries, idx, offsets, remaining, sells,
                   plan_warnings>>
    /\ UNCHANGED <<tlhVars, planVars, callVars>>

\* withdrawals.py 85-117
WithdrawalReturn ==
    /\ pc = "wd_done"
    /\ LET total_proceeds == TotalProceeds(sells)
           covered == IF RLe(target_amount, RZero)
                      THEN <<"Requested withdrawal covered by existing cash / sweep balances.">>
                      ELSE <<>>
           unable == IF RLt(total_proceeds, target_amount)
                     THEN <<"Unable to reach requested cash target given current exclusions and data.">>
                     ELSE <<>>
       IN  plan_warnings' = plan_warnings \o warnings \o covered \o unable
    /\ pc' = "returned"
    /\ UNCHANGED <<sellArgs, loss_buckets, bucket, entries, idx, offsets, remaining, sells,
                   warnings>>
    /\ UNCHANGED <<tlhVars, planVars, callVars>>

WithdrawalNextStep ==
    WithdrawalStart \/ WdReturnEmpty \/ WdStart \/ WdNext \/ WdFinish \/ WithdrawalReturn

(***************************************************************************)
(* Inputs of the planners.  AAA trades at 10 and BBB at 7; SWEEP is a      *)
(* money-market position worth 1 a share.                                  *)
(***************************************************************************)
PlanLotShapes ==
    {[symbol |-> "AAA", qty |-> 3, days_held |-> 30, basis_total |-> 45],
     [symbol |-> "AAA", qty |-> 3, days_held |-> 800, basis_total |-> 20],
     [symbol |-> "BBB", qty |-> 2, days_held |-> 800, basis_total |-> 20],
     [symbol |-> "BBB", qty |-> 2, days_held |-> 30, basis_total |-> 7],
     [symbol |-> "SWEEP", qty |-> 5, days_held |-> 30, basis_total |-> 5]}

PlanPools == UNION {[1..n -> PlanLotShapes] : n \in 0..MaxLots}

PlanLotsOf(pool) ==
    [i \in 1..Len(pool) |->
        Lot(i, pool[i].symbol, pool[i].days_held, pool[i].qty, pool[i].basis_total)]

HoldingsChoices ==
    {<<Holding("AAA", 3, <<10>>, <<>>, FALSE), Holding("BBB", 2, <<7>>, <<>>, FALSE)>>,
     <<Holding("AAA", 3, <<10>>, <<>>, FALSE), Holding("BBB", 2, <<7>>, <<>>, FALSE),
       Holding("SWEEP", 50, <<1>>, <<50>>, TRUE)>>,
     <<Holding("AAA", 3, <<>>, <<30>>, FALSE), Holding("BBB", 2, <<7>>, <<14>>, FALSE),
       Holding("SWEEP", 20, <<1>>, <<>>, TRUE)>>,
     <<Holding("AAA", 3, <<10>>, <<>>, FALSE), Holding("SWEEP", 5, <<1>>, <<>>, FALSE)>>}

ExcludeChoices == {<<>>, <<"aaa">>, <<"BBB">>, <<"AAA", "bbb", "SWEEP">>}

\* StrategyAllocationRequest, but for its exclusions.
RequestChoices ==
    {[allocation_amount |-> 20, cash_buffer_amount |-> <<>>, cash_buffer_pct |-> <<>>,
      manual_cash_available |-> 0, use_cash_equivalents_first |-> TRUE,
      liquidation_goal |-> "min_tax"],
     [allocation_amount |-> 20, cash_buffer_amount |-> <<5>>, cash_buffer_pct |-> <<Rat(1, 10)>>,
      manual_cash_available |-> 25, use_cash_equivalents_first |-> FALSE,
      liquidation_goal |-> "min_drift"],
     [allocation_amount |-> 40, cash_buffer_amount |-> <<>>, cash_buffer_pct |-> <<Rat(1, 10)>>,
      manual_cash_available |-> 44, use_cash_equivalents_first |-> TRUE,
      liquidation_goal |-> "balanced"],
     [allocation_amount |-> 40, cash_buffer_amount |-> <<>>, cash_buffer_pct |-> <<Rat(1, 10)>>,
      manual_cash_available |-> 10, use_cash_equivalents_first |-> TRUE,
      liquidation_goal |-> "min_tax"],
     [allocation_amount |-> 60, cash_buffer_amount |-> <<>>, cash_buffer_pct |-> <<>>,
      manual_cash_available |-> 0, use_cash_equivalents_first |-> FALSE,
      liquidation_goal |-> "min_tax"]}

\* withdrawal_amount, cushion_pct, manual_cash and goal of build_withdrawal_proposal.
WithdrawalChoices ==
    {[withdrawal_amount |-> 20, cushion_pct |-> Rat(1, 10), manual_cash |-> 0, goal |-> "min_tax"],
     [withdrawal_amount |-> 20, cushion_pct |-> Rat(1, 10), manual_cash |-> 22, goal |-> "min_tax"],
     [withdrawal_amount |-> 40, cushion_pct |-> RZero, manual_cash |-> 10, goal |-> "min_drift"],
     [withdrawal_amount |-> 20, cushion_pct |-> Rat(-1, 2), manual_cash |-> 0, goal |-> "balanced"],
     [withdrawal_amount |-> -10, cushion_pct |-> Rat(1, 10), manual_cash |-> 0, goal |-> "min_tax"]}

PlanSummary == [ytd_realized_st |-> R(4), ytd_realized_lt |-> R(100)]

PlanArgs ==
    {[planner |-> "transition", holdings |-> h, lots |-> PlanLotsOf(pool),
      realized_summary |-> PlanSummary,
      request |-> [allocation_amount |-> r.allocation_amount,
                   cash_buffer_amount |-> r.cash_buffer_amount,
                   cash_buffer_pct |-> r.cash_buffer_pct,
                   manual_cash_available |-> r.manual_cash_available,
                   use_cash_equivalents_first |-> r.use_cash_equivalents_first,
                   excluded_from_selling |-> x,
                   liquidation_goal |-> r.liquidation_goal,
                   tax_rates |-> DefaultTaxRates]] :
        h \in HoldingsChoices, pool \in PlanPools, r \in RequestChoices, x \in ExcludeChoices}
    \cup
    {[planner |-> "withdrawal", holdings |-> h, lots |-> PlanLotsOf(pool),
      realized_summary |-> PlanSummary, withdrawal_amount |-> w.withdrawal_amount,
      cushion_pct |-> w.cushion_pct, manual_cash |-> w.manual_cash,
      tax_rates |-> DefaultTaxRates, goal |-> w.goal, exclude_symbols |-> x] :
        h \in HoldingsChoices, pool \in PlanPools, w \in WithdrawalChoices, x \in ExcludeChoices}

PlanInit ==
    /\ pc = "plan"
    /\ plan_in \in PlanArgs
    /\ plan_out = <<>>
    /\ candidates = <<>>
    /\ target_amount = RZero
    /\ summary = [ytd_realized_st |-> RZero, ytd_realized_lt |-> RZero]
    /\ tax_rates = DefaultTaxRates
    /\ goal = "min_tax"
    /\ symbol_weight = NoWeights
    /\ loss_buckets = NoBuckets
    /\ bucket = 0
    /\ entries = <<>>
    /\ idx = 0
    /\ offsets = [st |-> RZero, lt |-> RZero]
    /\ remaining = RZero
    /\ sells = <<>>
    /\ warnings = <<>>
    /\ plan_warnings = <<>>

(***************************************************************************)
(* build_strategy_manage_plan (src/src/portfolio/manage.py).  The basket   *)
(* is a list of rows [symbol, weight]; a dict is the list of its items in  *)
(* insertion order.                                                        *)
(***************************************************************************)
BasketSymbols(basket_df) == {Upper(basket_df[i].symbol) : i \in 1..Len(basket_df)}

\* manage.py 44-48: the value of a holding in the sleeve.
SleeveValueOf(h) ==
    IF h.market_value # <<>> THEN h.market_value[1]
    ELSE (IF h.price # <<>> THEN h.price[1] ELSE 0) * h.qty

\* manage.py 38-49: values[symbol], summed over the holdings of the symbol.
RECURSIVE SleeveSymbolValue(_, _, _)
SleeveSymbolValue(holdings, basket_df, symbol) ==
    IF holdings = <<>> THEN 0
    ELSE LET h == Head(holdings)
             rest == SleeveSymbolValue(Tail(holdings), basket_df, symbol)
         IN  IF Upper(h.symbol) \notin BasketSymbols(basket_df) THEN rest
             ELSE IF h.is_cash_equivalent THEN rest
             ELSE IF Upper(h.symbol) = symbol THEN SleeveValueOf(h) + rest
             ELSE rest

\* The keys of values: the basket symbols that are held outside cash.
SleeveSymbols(holdings, basket_df) ==
    {Upper(holdings[i].symbol) : i \in {j \in 1..Len(holdings) :
        /\ Upper(holdings[j].symbol) \in BasketSymbols(basket_df)
        /\ ~holdings[j].is_cash_equivalent}}

RECURSIVE SumOver(_, _)
SumOver(f, keys) ==
    IF keys = {} THEN 0
    ELSE LET k == CHOOSE x \in keys : TRUE IN f[k] + SumOver(f, keys \ {k})

\* manage.py 31-54: sleeve_value and the actual weights.
compute_sleeve_snapshot(holdings, basket_df) ==
    IF basket_df = <<>> THEN [sleeve_value |-> 0, weights |-> <<>>]
    ELSE LET keys == SleeveSymbols(holdings, basket_df)
             values == [sym \in keys |-> SleeveSymbolValue(holdings, basket_df, sym)]
             sleeve_value == SumOver(values, keys)
         IN  [sleeve_value |-> sleeve_value,
              weights |-> IF sleeve_value > 0
                          THEN [sym \in keys |-> Rat(values[sym], sleeve_value)]
                          ELSE <<>>]

\* manage.py 69-82: one DriftEntry per basket row.
DriftEntries(basket_df, actual_weights) ==
    [i \in 1..Len(basket_df) |->
        LET symbol == Upper(basket_df[i].symbol)
            actual == WeightGet(actual_weights, symbol)
        IN  [symbol |-> symbol, target_weight |-> basket_df[i].weight,
             actual_weight |-> actual, drift |-> RSub(actual, basket_df[i].weight)]]

\* list[:10]
Top10(list) == IF Len(list) > 10 THEN SubSeq(list, 1, 10) ELSE list

\* manage.py 85-89: the ten largest positive drifts, largest first.
DriftOverweights(entries_) ==
    LET over == SelectSeq(entries_, LAMBDA e : RLt(RZero, e.drift))
    IN  Top10(SortedByKey(over, [i \in 1..Len(over) |-> <<RNeg(over[i].drift)>>]))

\* manage.py 90-93: the ten most negative drifts, most negative first.
DriftUnderweights(entries_) ==
    LET under == SelectSeq(entries_, LAMBDA e : RLt(e.drift, RZero))
    IN  Top10(SortedByKey(under, [i \in 1..Len(under) |-> <<under[i].drift>>]))

\* A dict built from items: a later item of a key replaces the value of the
\* earlier one, at the earlier one's place.
RECURSIVE DictOf(_)
DictOf(items) ==
    IF items = <<>> THEN <<>>
    ELSE LET last == items[Len(items)]
             before == DictOf(SubSeq(items, 1, Len(items) - 1))
         IN  IF \E i \in 1..Len(before) : before[i].symbol = last.symbol
             THEN [i \in 1..Len(before) |->
                      IF before[i].symbol = last.symbol THEN last ELSE before[i]]
             ELSE Append(before, last)

\* manage.py 128-135
determine_underweights(underweights_, sleeve_value) ==
    LET kept == SelectSeq(underweights_, LAMBDA e : RLt(e.drift, RZero))
    IN  DictOf([i \in 1..Len(kept) |->
                   [symbol |-> kept[i].symbol,
                    dollars |-> RMul(RNeg(kept[i].drift), R(sleeve_value))]])

\* manage.py 138-145
determine_overweights(overweights_, sleeve_value, tolerance) ==
    LET kept == SelectSeq(overweights_, LAMBDA e : RLt(tolerance, e.drift))
    IN  DictOf([i \in 1..Len(kept) |->
                   [symbol |-> kept[i].symbol,
                    dollars |-> RMul(kept[i].drift, R(sleeve_value))]])

DictKeys(dict) == {dict[i].symbol : i \in 1..Len(dict)}

DictSum(dict) == RSum([i \in 1..Len(dict) |-> dict[i].dollars])

\* manage.py 355-357
SellAmountUncapped(overweights_, sleeve_value, turnover_cap_pct) == DictSum(overweights_)

SellAmount(overweights_, sleeve_value, turnover_cap_pct) ==
    RMin(DictSum(overweights_), RMul(R(sleeve_value), turnover_cap_pct))

\* manage.py 386-403: the buys of a rebalance, in the order of the
\* underweights, and the proceeds left over.
RECURSIVE RebalanceBuys(_, _, _)
RebalanceBuys(underweights_, proceeds, price_map) ==
    IF underweights_ = <<>> THEN [rows |-> <<>>, proceeds |-> proceeds]
    ELSE LET item == Head(underweights_)
             allocation == RMin(item.dollars, proceeds)
             left == RSub(proceeds, allocation)
             price == IF HasPrice(price_map, item.symbol)
                      THEN <<price_map[item.symbol]>> ELSE <<>>
             row == [symbol |-> item.symbol, target_weight |-> RZero,
                     target_dollars |-> allocation, price |-> price,
                     est_shares |-> IF price # <<>>
                                    THEN <<RDiv(allocation, R(price[1]))>> ELSE <<>>]
         IN  IF RLe(item.dollars, RZero) \/ RLe(allocation, RZero)
             THEN RebalanceBuys(Tail(underweights_), proceeds, price_map)
             ELSE IF RLe(left, RZero) THEN [rows |-> <<row>>, proceeds |-> left]
             ELSE LET later == RebalanceBuys(Tail(underweights_), left, price_map)
                  IN  [rows |-> <<row>> \o later.rows, proceeds |-> later.proceeds]

\* manage.py 156-163: the drift picture of the sleeve.
ManageDrift(holdings, basket_df, settings) ==
    LET snapshot == compute_sleeve_snapshot(holdings, basket_df)
        entries_ == DriftEntries(basket_df, snapshot.weights)
    IN  [sleeve_value |-> snapshot.sleeve_value,
         underweights |-> determine_underweights(DriftUnderweights(entries_),
                                                 snapshot.sleeve_value),
         overweights |-> determine_overweights(DriftOverweights(entries_),
                                               snapshot.sleeve_value,
                                               settings.drift_tolerance_pct)]

\* manage.py 156-167, 182-191, 351-378: the rebalance of
\* build_strategy_manage_plan, up to the call of select_sells or to an early
\* return.  In rebalance mode it is the first step of the call; in combined
\* mode it follows the TLH plan, whose sells, buys and warnings are kept.
RebalanceStart ==
    /\ \/ pc = "plan" /\ plan_in.planner = "manage" /\ plan_in.settings.mode = "rebalance"
       \/ pc = "rebalance"
    /\ LET holdings == plan_in.holdings
           drift == ManageDrift(holdings, plan_in.basket_df, plan_in.settings)
           sell_amount == SellAmount(drift.overweights, drift.sleeve_value,
                                     plan_in.settings.turnover_cap_pct)
           target_symbols == DictKeys(drift.overweights)
           filtered_lots == SelectSeq(plan_in.lots,
                                LAMBDA lot : Upper(lot.symbol) \in target_symbols)
           out == IF pc = "rebalance" THEN plan_out
                  ELSE [sleeve_value |-> drift.sleeve_value,
                        overweights |-> drift.overweights,
                        underweights |-> drift.underweights, buy_targets |-> <<>>]
       IN  IF drift.overweights = <<>>
           THEN /\ plan_out' = out
                /\ UNCHANGED plan_warnings
                /\ pc' = "returned"
                /\ UNCHANGED sellArgs
           ELSE IF RLe(sell_amount, RZero)
           THEN /\ plan_out' = out
                /\ plan_warnings' =
                      plan_warnings \o <<"Turnover cap prevents rebalancing trades.">>
                /\ pc' = "returned"
                /\ UNCHANGED sellArgs
           ELSE /\ plan_out' = out
                /\ candidates' = build_sell_candidates(filtered_lots, price_lookup(holdings), {})
                /\ plan_warnings' =
                      plan_warnings
                      \o build_sell_warnings(filtered_lots, price_lookup(holdings), {})
                /\ target_amount' = sell_amount
                /\ summary' = plan_in.realized_summary
                /\ tax_rates' = DefaultTaxRates
                /\ goal' = plan_in.settings.tax_goal
                /\ symbol_weight' = compute_symbol_weights(holdings)
                /\ pc' = "start"
    /\ UNCHANGED <<loss_buckets, bucket, entries, idx, offsets, remaining, sells, warnings,
                   plan_in>>
    /\ UNCHANGED <<tlhVars, callVars>>

\* manage.py 192-203: the buys of the rebalance merged into buy_targets.
RECURSIVE MergeRebalanceBuys(_, _)
MergeRebalanceBuys(buy_targets, rebal_buys) ==
    IF rebal_buys = <<>> THEN buy_targets
    ELSE LET row == Head(rebal_buys)
             merged ==
                 IF \E i \in 1..Len(buy_targets) : buy_targets[i].symbol = row.symbol
                 THEN [i \in 1..Len(buy_targets) |->
                          IF buy_targets[i].symbol # row.symbol THEN buy_targets[i]
                          ELSE [buy_targets[i] EXCEPT
                                   !.target_dollars = RAdd(@, row.target_dollars),
                                   !.est_shares = IF @ # <<>> /\ row.est_shares # <<>>
                                                  THEN <<RAdd(@[1], row.est_shares[1])>>
                                                  ELSE <<>>]]
                 ELSE Append(buy_targets, row)
         IN  MergeRebalanceBuys(merged, Tail(rebal_buys))

\* manage.py 379-406, 192-213: the buys and the warnings after select_sells.
RebalanceReturn ==
    /\ pc = "done"
    /\ LET proceeds == TotalProceeds(sells)
           buys == RebalanceBuys(plan_out.underweights, proceeds,
                                 price_lookup(plan_in.holdings))
       IN  IF RLe(proceeds, RZero)
           THEN /\ plan_warnings' = plan_warnings \o warnings
                /\ UNCHANGED plan_out
           ELSE /\ plan_out' = [plan_out EXCEPT
                                   !.buy_targets = MergeRebalanceBuys(@, buys.rows)]
                /\ plan_warnings' =
                      plan_warnings \o warnings
                      \o (IF RLt(RZero, buys.proceeds)
                          THEN <<"Rebalance proceeds exceed underweight needs; remaining cash implied.">>
                          ELSE <<>>)
    /\ pc' = "returned"
    /\ UNCHANGED <<sellArgs, loss_buckets, bucket, entries, idx, offsets, remaining, sells,
                   warnings, plan_in>>
    /\ UNCHANGED <<tlhVars, callVars>>

(***************************************************************************)
(* identify_candidates (src/src/portfolio/tlh.py) and the realized-gains   *)
(* context it reads (src/src/portfolio/tax_context.py).                    *)
(***************************************************************************)
GOAL_OFFSET_GAINS == "offset_gains"
GOAL_OPPORTUNISTIC == "opportunistic"
LOSS_TARGET_TOLERANCE == Rat(95, 100)
NEAR_LT_DAYS == 14
WASH_WINDOW_DAYS == 31

\* An absent realized summary (None).
NoSummary == [present |-> FALSE, ytd_realized_st |-> RZero, ytd_realized_lt |-> RZero]

Summary(st, lt) == [present |-> TRUE, ytd_realized_st |-> R(st), ytd_realized_lt |-> R(lt)]

\* tax_context.py 36-43; "NONE" stands for None.
determine_priority_term_lt_first(summary_) ==
    IF ~summary_.present THEN "NONE"
    ELSE IF RLt(RZero, summary_.ytd_realized_lt) THEN LONG
    ELSE IF RLt(RZero, summary_.ytd_realized_st) THEN SHORT
    ELSE "NONE"

determine_priority_term(summary_) ==
    IF ~summary_.present THEN "NONE"
    ELSE IF RLt(RZero, summary_.ytd_realized_st) THEN SHORT
    ELSE IF RLt(RZero, summary_.ytd_realized_lt) THEN LONG
    ELSE "NONE"

\* str.upper().startswith("B") on the sides of the model.
SideIsBuy(side) == side \in {"BUY", "buy", "Bought"}

\* tlh.py 104-111; a trade's days_ago is (today - trade_date).days.
has_recent_trade(trades, symbol) ==
    \E i \in 1..Len(trades) :
        /\ Upper(trades[i].symbol) = Upper(symbol)
        /\ Abs(trades[i].days_ago) <= WASH_WINDOW_DAYS

has_recent_buy(trades, symbol) ==
    \E i \in 1..Len(trades) :
        /\ Upper(trades[i].symbol) = Upper(symbol)
        /\ SideIsBuy(trades[i].side)
        /\ Abs(trades[i].days_ago) <= WASH_WINDOW_DAYS

\* tlh.py 58-65
NotesOf(lot, trades) ==
    (IF lot.term = SHORT /\ lot.days_held >= 365 - NEAR_LT_DAYS
     THEN <<"Lot is within 14 days of long-term status; consider holding">>
     ELSE <<>>)
    \o (IF has_recent_buy(trades, lot.symbol)
        THEN <<"Recent buy detected; wash-sale risk">>
        ELSE <<>>)

\* tlh.py 54, 56: "if value >= -abs(threshold): continue".
FailsBarSigned(value, threshold) == RLe(RNeg(threshold), value)

FailsBar(value, threshold) == RLe(RNeg(RAbs(threshold)), value)

\* tlh.py 45-78: the candidates of the lots that pass the filter, in lot order.
RECURSIVE TlhCandidatesOf(_, _)
TlhCandidatesOf(lots, args) ==
    IF lots = <<>> THEN <<>>
    ELSE LET lot == Head(lots)
             rest == TlhCandidatesOf(Tail(lots), args)
             price == args.price_map[lot.symbol]
             current_value == R(price * lot.qty)
             unrealized_pl == RSub(current_value, R(lot.basis_total))
             pl_pct == RDiv(unrealized_pl, R(lot.basis_total))
         IN  IF ~HasPrice(args.price_map, lot.symbol) THEN rest
             ELSE IF lot.basis_total <= 0 THEN rest
             ELSE IF FailsBar(unrealized_pl, args.loss_threshold) THEN rest
             ELSE IF FailsBar(pl_pct, args.loss_pct_threshold) THEN rest
             ELSE <<[symbol |-> lot.symbol, lot_id |-> lot.lot_id, qty |-> lot.qty,
                     basis_total |-> lot.basis_total, current_value |-> current_value,
                     unrealized_pl |-> unrealized_pl, pl_pct |-> pl_pct, term |-> lot.term,
                     notes |-> NotesOf(lot, args.trades)]>> \o rest

\* tlh.py 80-87
sort_key(candidate, priority_term) ==
    LET primary == IF priority_term # "NONE"
                   THEN (IF candidate.term = priority_term THEN 0 ELSE 1)
                   ELSE (IF candidate.term = SHORT THEN 0 ELSE 1)
        secondary == IF candidate.term = SHORT THEN 0 ELSE 1
    IN  <<R(primary), R(secondary), candidate.unrealized_pl>>

\* tlh.py 89: candidates.sort(key=_sort_key)
SortedCandidates(cands, priority_term) ==
    SortedByKey(cands, [i \in 1..Len(cands) |-> sort_key(cands[i], priority_term)])

\* tlh.py 97: the cumulative loss reaches the relaxed target.
LossTargetMetExactly(cum, loss_target) == RLe(loss_target, cum)

LossTargetMet(cum, loss_target) == RLe(RMul(loss_target, LOSS_TARGET_TOLERANCE), cum)

\* tlh.py 99: the count cap.
CapReached(n, max_candidates) == n >= max_candidates

(***************************************************************************)
(* Inputs of identify_candidates.  AAA trades at 10 with 3 shares a lot,   *)
(* BBB at 7 with 2 shares a lot; the lots lose 19, 10, 1 (AAA) and 6       *)
(* (BBB), and were acquired 30, 360 or 800 days ago.                       *)
(***************************************************************************)
TlhLotShapes ==
    {[symbol |-> "AAA", days_held |-> 30, basis_total |-> 49],
     [symbol |-> "AAA", days_held |-> 30, basis_total |-> 40],
     [symbol |-> "AAA", days_held |-> 360, basis_total |-> 40],
     [symbol |-> "AAA", days_held |-> 800, basis_total |-> 49],
     [symbol |-> "AAA", days_held |-> 800, basis_total |-> 40],
     [symbol |-> "AAA", days_held |-> 30, basis_total |-> 31],
     [symbol |-> "BBB", days_held |-> 30, basis_total |-> 20],
     [symbol |-> "BBB", days_held |-> 800, basis_total |-> 20]}

TlhPools == UNION {[1..n -> TlhLotShapes] : n \in 0..MaxLots}

\* The realized summary and the recent trades of a call.
TlhContextChoices ==
    {[realized_summary |-> NoSummary, trades |-> <<>>],
     [realized_summary |-> Summary(5, 7),
      trades |-> <<[symbol |-> "aaa", side |-> "buy", days_ago |-> 10]>>],
     [realized_summary |-> Summary(-5, 7), trades |-> <<>>],
     [realized_summary |-> Summary(0, 0),
      trades |-> <<[symbol |-> "BBB", side |-> "SELL", days_ago |-> 3]>>]}

\* The harvesting goal and the loss target of a call.
TlhGoalChoices ==
    {[tlh_goal |-> GOAL_OFFSET_GAINS, loss_target |-> R(0)],
     [tlh_goal |-> GOAL_OFFSET_GAINS, loss_target |-> R(20)],
     [tlh_goal |-> GOAL_OFFSET_GAINS, loss_target |-> R(30)],
     [tlh_goal |-> GOAL_OPPORTUNISTIC, loss_target |-> R(30)]}

MaxCandidatesChoices == {0, 1, 2, 3}

TlhInit ==
    /\ tlh_pc = "start"
    /\ \E pool \in TlhPools, ctx \in TlhContextChoices, g \in TlhGoalChoices,
          m \in MaxCandidatesChoices :
          tlh_args = [lots |-> LotsOf(pool), price_map |-> PriceMap,
                      loss_threshold |-> R(5), loss_pct_threshold |-> Rat(5, 100),
                      max_candidates |-> m, trades |-> ctx.trades,
                      realized_summary |-> ctx.realized_summary,
                      tlh_goal |-> g.tlh_goal, loss_target |-> g.loss_target]
    /\ tlh_candidates = <<>>
    /\ tlh_idx = 0
    /\ cumulative_loss = RZero
    /\ filtered = <<>>

\* Lots for the threshold filter: AAA lots that lose 19, 10, 5 and 1 or gain
\* 10, an AAA lot with a zero basis, a BBB lot that loses 6 of 20 (30%), and
\* a lot of CCC, which has no price.
FilterLotShapes ==
    {[symbol |-> "AAA", qty |-> 3, basis_total |-> 49],
     [symbol |-> "AAA", qty |-> 3, basis_total |-> 40],
     [symbol |-> "AAA", qty |-> 3, basis_total |-> 35],
     [symbol |-> "AAA", qty |-> 3, basis_total |-> 31],
     [symbol |-> "AAA", qty |-> 3, basis_total |-> 20],
     [symbol |-> "AAA", qty |-> 3, basis_total |-> 0],
     [symbol |-> "BBB", qty |-> 2, basis_total |-> 20],
     [symbol |-> "CCC", qty |-> 1, basis_total |-> 50]}

FilterPools == UNION {[1..n -> FilterLotShapes] : n \in 0..MaxLots}

FilterLotsOf(pool) ==
    [i \in 1..Len(pool) |->
        Lot(i, pool[i].symbol, 30, pool[i].qty, pool[i].basis_total)]

\* loss_threshold and loss_pct_threshold of a call, of either sign.
ThresholdChoices ==
    {[loss_threshold |-> R(5), loss_pct_threshold |-> Rat(5, 100)],
     [loss_threshold |-> R(-5), loss_pct_threshold |-> Rat(-5, 100)],
     [loss_threshold |-> R(10), loss_pct_threshold |-> Rat(5, 100)],
     [loss_threshold |-> R(-10), loss_pct_threshold |-> Rat(5, 100)],
     [loss_threshold |-> R(5), loss_pct_threshold |-> Rat(3, 10)],
     [loss_threshold |-> R(5), loss_pct_threshold |-> Rat(-3, 10)]}

TlhFilterInit ==
    /\ tlh_pc = "start"
    /\ \E pool \in FilterPools, th \in ThresholdChoices, m \in MaxCandidatesChoices :
          tlh_args = [lots |-> FilterLotsOf(pool), price_map |-> PriceMap,
                      loss_threshold |-> th.loss_threshold,
                      loss_pct_threshold |-> th.loss_pct_threshold,
                      max_candidates |-> m, trades |-> <<>>,
                      realized_summary |-> NoSummary,
                      tlh_goal |-> GOAL_OPPORTUNISTIC, loss_target |-> RZero]
    /\ tlh_candidates = <<>>
    /\ tlh_idx = 0
    /\ cumulative_loss = RZero
    /\ filtered = <<>>

\* Lots for the notes: AAA lots that lose 10, held 350, 351, 364 and 365
\* days, and a BBB lot that loses 6, held 30 days.
NoteLotShapes ==
    {[symbol |-> "AAA", days_held |-> 350, basis_total |-> 40],
     [symbol |-> "AAA", days_held |-> 351, basis_total |-> 40],
     [symbol |-> "AAA", days_held |-> 364, basis_total |-> 40],
     [symbol |-> "AAA", days_held |-> 365, basis_total |-> 40],
     [symbol |-> "BBB", days_held |-> 30, basis_total |-> 20]}

NotePools == UNION {[1..n -> NoteLotShapes] : n \in 0..MaxLots}

MaxTrades == 2

\* Trades of AAA and BBB, bought or sold 31 or 32 days before or after today.
TradeShapes ==
    [symbol : {"aaa", "BBB"}, side : {"buy", "SELL"}, days_ago : {-32, -31, 31, 32}]

TradeLists == UNION {[1..n -> TradeShapes] : n \in 0..MaxTrades}

TlhNotesInit ==
    /\ tlh_pc = "start"
    /\ \E pool \in NotePools, trades \in TradeLists :
          tlh_args = [lots |-> LotsOf(pool), price_map |-> PriceMap,
                      loss_threshold |-> R(5), loss_pct_threshold |-> Rat(5, 100),
                      max_candidates |-> 3, trades |-> trades,
                      realized_summary |-> NoSummary,
                      tlh_goal |-> GOAL_OPPORTUNISTIC, loss_target |-> RZero]
    /\ tlh_candidates = <<>>
    /\ tlh_idx = 0
    /\ cumulative_loss = RZero
    /\ filtered = <<>>

\* No call of identify_candidates is modelled.
TlhIdle ==
    /\ tlh_pc = "idle"
    /\ tlh_args = <<>>
    /\ tlh_candidates = <<>>
    /\ tlh_idx = 0
    /\ cumulative_loss = RZero
    /\ filtered = <<>>

\* tlh.py 39-92: filter and annotate the lots, sort the candidates.
TlhStart ==
    /\ tlh_pc = "start"
    /\ tlh_candidates' = SortedCandidates(TlhCandidatesOf(tlh_args.lots, tlh_args),
                                          determine_priority_term(tlh_args.realized_summary))
    /\ tlh_pc' = IF tlh_candidates' = <<>> THEN "done" ELSE "loop"
    /\ tlh_idx' = 1
    /\ cumulative_loss' = RZero
    /\ filtered' = <<>>
    /\ UNCHANGED tlh_args
    /\ UNCHANGED <<sellVars, planVars, callVars>>

\* tlh.py 93-101: one pass of the loop; the call returns when the loss
\* target is met, the cap is reached or the candidates run out.
TlhTake ==
    /\ tlh_pc = "loop"
    /\ LET candidate == tlh_candidates[tlh_idx]
           counting == tlh_args.tlh_goal = GOAL_OFFSET_GAINS /\ RLt(RZero, tlh_args.loss_target)
           cum == IF counting THEN RAdd(cumulative_loss, RNeg(candidate.unrealized_pl))
                  ELSE cumulative_loss
           stop == \/ counting /\ LossTargetMet(cum, tlh_args.loss_target)
                   \/ CapReached(Len(filtered) + 1, tlh_args.max_candidates)
       IN  /\ filtered' = Append(filtered, candidate)
           /\ cumulative_loss' = cum
           /\ tlh_pc' = IF stop \/ tlh_idx = Len(tlh_candidates) THEN "done" ELSE "loop"
    /\ tlh_idx' = tlh_idx + 1
    /\ UNCHANGED <<tlh_args, tlh_candidates>>
    /\ UNCHANGED <<sellVars, planVars, callVars>>

TlhNextStep == TlhStart \/ TlhTake

(***************************************************************************)
(* build_strategy_manage_plan in TLH mode: identify_candidates, then the   *)
(* sells and the replacement buys (src/src/portfolio/manage.py 216-339).   *)
(***************************************************************************)
\* replacements.py 18
GENERIC_PROXIES == <<"SPY", "VTI", "SCHB", "IVV">>

\* replacements.py 36-46, with sector=None: ReplacementBasket has the
\* fields symbol and weight (models.py 91-93).
build_replacement_basket(symbol, target_value) ==
    [i \in 1..Len(GENERIC_PROXIES) |->
        [symbol |-> GENERIC_PROXIES[i], weight |-> Rat(1, Len(GENERIC_PROXIES))]]

\* manage.py 409-414
estimate_candidate_tax(gain, term, rates) ==
    IF RLe(RZero, gain)
    THEN RMul(gain, RAdd(IF term = LONG THEN rates.long_term ELSE rates.short_term,
                         rates.state))
    ELSE RMul(gain, IF term = SHORT THEN RAdd(rates.short_term, rates.state)
                    ELSE RAdd(rates.long_term, rates.state))

\* manage.py 323-325: the underweight symbols, largest need first.
AllocationOrder(underweights_) ==
    SortedByKey(underweights_,
                [i \in 1..Len(underweights_) |-> <<RNeg(underweights_[i].dollars)>>])

\* manage.py 316-339: the allocation of the proceeds of one sale, and the
\* underweights it leaves; todo is the symbols still to visit.
RECURSIVE AllocateLoop(_, _, _, _)
AllocateLoop(todo, sold_symbol, proceeds, underweights_) ==
    IF todo = <<>> THEN [allocation |-> <<>>, underweights |-> underweights_]
    ELSE LET symbol == Head(todo).symbol
             need == (CHOOSE u \in Range(underweights_) : u.symbol = symbol).dollars
             amount == RMin(proceeds, need)
             after == [i \in 1..Len(underweights_) |->
                          IF underweights_[i].symbol = symbol
                          THEN [underweights_[i] EXCEPT !.dollars = RSub(need, amount)]
                          ELSE underweights_[i]]
             left == RSub(proceeds, amount)
         IN  IF symbol = sold_symbol \/ RLe(need, RZero) \/ RLe(amount, RZero)
             THEN AllocateLoop(Tail(todo), sold_symbol, proceeds, underweights_)
             ELSE IF RLe(left, Rat(1, 1000000))
             THEN [allocation |-> <<[symbol |-> symbol, dollars |-> amount]>>,
                   underweights |-> after]
             ELSE LET later == AllocateLoop(Tail(todo), sold_symbol, left, after)
                  IN  [allocation |-> <<[symbol |-> symbol, dollars |-> amount]>>
                                      \o later.allocation,
                       underweights |-> later.underweights]

allocate_replacement_proceeds(sold_symbol, proceeds, underweights_) ==
    AllocateLoop(AllocationOrder(underweights_), sold_symbol, proceeds, underweights_)

\* manage.py 296-312: the allocation of one sale merged into buy_rows.
RECURSIVE MergeBuys(_, _, _, _)
MergeBuys(buy_rows, allocation, price_map, target_weights) ==
    IF allocation = <<>> THEN buy_rows
    ELSE LET item == Head(allocation)
             price == IF item.symbol \in DOMAIN price_map
                      THEN <<price_map[item.symbol]>> ELSE <<>>
             est_shares == IF price # <<>> /\ price[1] # 0
                           THEN <<RDiv(item.dollars, R(price[1]))>> ELSE <<>>
             merged ==
                 IF \E i \in 1..Len(buy_rows) : buy_rows[i].symbol = item.symbol
                 THEN [i \in 1..Len(buy_rows) |->
                          IF buy_rows[i].symbol # item.symbol THEN buy_rows[i]
                          ELSE [buy_rows[i] EXCEPT
                                   !.target_dollars = RAdd(@, item.dollars),
                                   !.est_shares = IF @ # <<>> /\ est_shares # <<>>
                                                  THEN <<RAdd(@[1], est_shares[1])>>
                                                  ELSE <<>>]]
                 ELSE Append(buy_rows,
                             [symbol |-> item.symbol,
                              target_weight |-> WeightGet(target_weights, item.symbol),
                              target_dollars |-> item.dollars, price |-> price,
                              est_shares |-> est_shares])
         IN  MergeBuys(merged, Tail(allocation), price_map, target_weights)

\* manage.py 256-270
TlhSellOf(cand) ==
    [symbol |-> cand.symbol, lot_id |-> cand.lot_id, qty |-> cand.qty,
     price |-> IF cand.qty # 0 THEN RDiv(cand.current_value, R(cand.qty)) ELSE RZero,
     proceeds |-> cand.current_value, basis |-> R(cand.basis_total),
     gain_loss |-> cand.unrealized_pl, term |-> cand.term,
     estimated_tax |-> estimate_candidate_tax(cand.unrealized_pl, cand.term, DefaultTaxRates),
     rationale |-> IF cand.notes # <<>> THEN cand.notes ELSE <<"TLH candidate">>]

\* manage.py 287-294: a BuyTargetRow is built from row.market_value, an
\* attribute that a ReplacementBasket does not have; the read raises
\* AttributeError on the first row of the basket.
FallbackRaises(replacement_plan) ==
    \E i \in 1..Len(replacement_plan) : "market_value" \notin DOMAIN replacement_plan[i]

\* manage.py 250-313: the loop over the candidates.  raised is <<>> when the
\* loop runs to its end, and the name of the exception otherwise.
RECURSIVE TlhPlanLoop(_, _, _, _, _, _, _)
TlhPlanLoop(cands, underweights_, sells_, buy_rows, warnings_, price_map, target_weights) ==
    IF cands = <<>>
    THEN [tlh_sells |-> sells_, buy_rows |-> buy_rows, warnings |-> warnings_,
          raised |-> <<>>]
    ELSE LET cand == Head(cands)
             sold == Append(sells_, TlhSellOf(cand))
             result == allocate_replacement_proceeds(cand.symbol, cand.current_value,
                                                     underweights_)
             replacement_plan == build_replacement_basket(cand.symbol, cand.current_value)
             warned == Append(warnings_,
                              <<"No underweight replacements available for", cand.symbol,
                                "; using ETF basket.">>)
         IN  IF Upper(cand.symbol) \notin DOMAIN target_weights
             THEN TlhPlanLoop(Tail(cands), underweights_, sells_, buy_rows, warnings_,
                              price_map, target_weights)
             ELSE IF result.allocation = <<>>
             THEN IF FallbackRaises(replacement_plan)
                  THEN [tlh_sells |-> sold, buy_rows |-> buy_rows, warnings |-> warned,
                        raised |-> <<"AttributeError">>]
                  ELSE TlhPlanLoop(Tail(cands), result.underweights, sold,
                                   buy_rows
                                   \o [i \in 1..Len(replacement_plan) |->
                                          [symbol |-> replacement_plan[i].symbol,
                                           target_weight |-> RZero,
                                           target_dollars |-> replacement_plan[i].market_value,
                                           price |-> <<>>, est_shares |-> <<>>]],
                                   warned, price_map, target_weights)
             ELSE TlhPlanLoop(Tail(cands), result.underweights, sold,
                              MergeBuys(buy_rows, result.allocation, price_map,
                                        target_weights),
                              warnings_, price_map, target_weights)

\* manage.py 243-245
TargetWeights(basket_df) ==
    [sym \in BasketSymbols(basket_df) |->
        basket_df[CHOOSE i \in 1..Len(basket_df) :
                     /\ Upper(basket_df[i].symbol) = sym
                     /\ \A j \in (i + 1)..Len(basket_df) : Upper(basket_df[j].symbol) # sym].weight]

\* manage.py 156-178, 225-237: build_strategy_manage_plan in TLH mode, up to
\* the call of identify_candidates.
ManageTlhStart ==
    /\ pc = "plan"
    /\ plan_in.planner = "manage"
    /\ plan_in.settings.mode \in {"tlh", "combined"}
    /\ LET drift == ManageDrift(plan_in.holdings, plan_in.basket_df, plan_in.settings)
       IN  plan_out' = [sleeve_value |-> drift.sleeve_value,
                        overweights |-> drift.overweights,
                        underweights |-> drift.underweights, buy_targets |-> <<>>]
    /\ tlh_args' = [lots |-> SelectSeq(plan_in.lots,
                                LAMBDA lot : Upper(lot.symbol) \in BasketSymbols(plan_in.basket_df)),
                    price_map |-> price_lookup(plan_in.holdings),
                    loss_threshold |-> R(100), loss_pct_threshold |-> Rat(2, 100),
                    max_candidates |-> plan_in.settings.tlh_candidate_limit,
                    trades |-> <<>>,
                    realized_summary |-> [present |-> TRUE,
                        ytd_realized_st |-> plan_in.realized_summary.ytd_realized_st,
                        ytd_realized_lt |-> plan_in.realized_summary.ytd_realized_lt],
                    tlh_goal |-> plan_in.settings.tax_goal, loss_target |-> RZero]
    /\ tlh_pc' = "start"
    /\ pc' = "tlh"
    /\ UNCHANGED <<sellArgs, loss_buckets, bucket, entries, idx, offsets, remaining, sells,
                   warnings, plan_warnings, plan_in>>
    /\ UNCHANGED <<tlh_candidates, tlh_idx, cumulative_loss, filtered, callVars>>

\* manage.py 238-313, 179-180, 205-213: the plan built from the candidates,
\* or the exception that leaves build_strategy_manage_plan; in combined
\* mode the rebalance follows.
ManageTlhReturn ==
    /\ pc = "tlh"
    /\ tlh_pc = "done"
    /\ LET result == TlhPlanLoop(filtered, plan_out.underweights, <<>>, <<>>, <<>>,
                                 price_lookup(plan_in.holdings),
                                 TargetWeights(plan_in.basket_df))
       IN  IF result.raised # <<>>
           THEN /\ pc' = "raised"
                /\ plan_out' = [raised |-> result.raised[1]]
                /\ UNCHANGED plan_warnings
           ELSE /\ pc' = IF plan_in.settings.mode = "combined" THEN "rebalance"
                         ELSE "returned"
                /\ plan_out' = [sleeve_value |-> plan_out.sleeve_value,
                                overweights |-> plan_out.overweights,
                                underweights |-> plan_out.underweights,
                                tlh_sells |-> result.tlh_sells,
                                buy_targets |-> result.buy_rows]
                /\ plan_warnings' = result.warnings
    /\ UNCHANGED <<sellArgs, loss_buckets, bucket, entries, idx, offsets, remaining, sells,
                   warnings, plan_in>>
    /\ UNCHANGED <<tlhVars, callVars>>

(***************************************************************************)
(* Inputs of build_strategy_manage_plan.  AAA trades at 10, BBB at 7 and   *)
(* CCC at 26; the lots lose 150 (AAA, short), 120 (BBB, long) and 140      *)
(* (CCC, short) or gain 100 (AAA, long) and 70 (BBB, short).               *)
(***************************************************************************)
ManageLotShapes ==
    {[symbol |-> "AAA", qty |-> 30, days_held |-> 30, basis_total |-> 450],
     [symbol |-> "AAA", qty |-> 30, days_held |-> 800, basis_total |-> 200],
     [symbol |-> "BBB", qty |-> 20, days_held |-> 800, basis_total |-> 260],
     [symbol |-> "BBB", qty |-> 20, days_held |-> 30, basis_total |-> 70],
     [symbol |-> "CCC", qty |-> 10, days_held |-> 30, basis_total |-> 400]}

ManagePools == UNION {[1..n -> ManageLotShapes] : n \in 0..MaxLots}

ManageHoldingsChoices ==
    {<<Holding("AAA", 30, <<10>>, <<>>, FALSE), Holding("BBB", 20, <<7>>, <<>>, FALSE)>>,
     <<Holding("AAA", 60, <<10>>, <<>>, FALSE), Holding("BBB", 20, <<7>>, <<140>>, FALSE),
       Holding("CCC", 10, <<26>>, <<>>, FALSE), Holding("SWEEP", 50, <<1>>, <<>>, TRUE)>>}

BasketChoices ==
    {<<>>,
     <<[symbol |-> "AAA", weight |-> Rat(1, 2)], [symbol |-> "BBB", weight |-> Rat(1, 2)]>>,
     <<[symbol |-> "AAA", weight |-> Rat(1, 4)], [symbol |-> "bbb", weight |-> Rat(1, 4)],
       [symbol |-> "CCC", weight |-> Rat(1, 2)]>>,
     <<[symbol |-> "AAA", weight |-> Rat(1, 2)], [symbol |-> "DDD", weight |-> Rat(1, 2)]>>,
     <<[symbol |-> "aaa", weight |-> R(1)]>>}

\* ManageActionSettings with a turnover cap of 0%, 5% and 50%.
ManageSettingsChoices ==
    {[mode |-> "rebalance", drift_tolerance_pct |-> tol, turnover_cap_pct |-> cap,
      tax_goal |-> g, tlh_candidate_limit |-> 5] :
        tol \in {Rat(1, 100), Rat(2, 5)}, cap \in {RZero, Rat(5, 100), Rat(1, 2)},
        g \in {"min_tax", "min_drift"}}
    \cup
    {[mode |-> "tlh", drift_tolerance_pct |-> Rat(1, 100), turnover_cap_pct |-> Rat(5, 100),
      tax_goal |-> "min_tax", tlh_candidate_limit |-> m] : m \in {1, 5}}
    \cup
    {[mode |-> "combined", drift_tolerance_pct |-> Rat(1, 100),
      turnover_cap_pct |-> Rat(1, 2), tax_goal |-> "min_tax", tlh_candidate_limit |-> 5]}

ManageArgs ==
    {[planner |-> "manage", holdings |-> h, lots |-> PlanLotsOf(pool), basket_df |-> b,
      settings |-> st, realized_summary |-> PlanSummary] :
        h \in ManageHoldingsChoices, pool \in ManagePools, b \in BasketChoices,
        st \in ManageSettingsChoices}

ManageInit ==
    /\ pc = "plan"
    /\ plan_in \in ManageArgs
    /\ plan_out = <<>>
    /\ candidates = <<>>
    /\ target_amount = RZero
    /\ summary = [ytd_realized_st |-> RZero, ytd_realized_lt |-> RZero]
    /\ tax_rates = DefaultTaxRates
    /\ goal = "min_tax"
    /\ symbol_weight = NoWeights
    /\ loss_buckets = NoBuckets
    /\ bucket = 0
    /\ entries = <<>>
    /\ idx = 0
    /\ offsets = [st |-> RZero, lt |-> RZero]
    /\ remaining = RZero
    /\ sells = <<>>
    /\ warnings = <<>>
    /\ plan_warnings = <<>>

(***************************************************************************)
(* The functions of src/src/portfolio/tax_context.py, each called once on  *)
(* inputs drawn at the start.                                              *)
(***************************************************************************)
UNKNOWN == "UNKNOWN"

\* tax_context.py 16-20: sum(r.realized_gain_loss for r in row_list if keep(r)).
RECURSIVE TermTotalAnyTerm(_, _)
TermTotalAnyTerm(row_list, terms) ==
    IF row_list = <<>> THEN 0
    ELSE Head(row_list).realized_gain_loss + TermTotalAnyTerm(Tail(row_list), terms)

RECURSIVE TermTotal(_, _)
TermTotal(row_list, terms) ==
    IF row_list = <<>> THEN 0
    ELSE (IF Head(row_list).term \in terms THEN Head(row_list).realized_gain_loss ELSE 0)
         + TermTotal(Tail(row_list), terms)

\* tax_context.py 21: sum((r.wash_sale_disallowed or 0.0) for r in row_list)
RECURSIVE WashTotal(_)
WashTotal(row_list) ==
    IF row_list = <<>> THEN 0
    ELSE (IF Head(row_list).wash_sale_disallowed # <<>>
          THEN Head(row_list).wash_sale_disallowed[1] ELSE 0)
         + WashTotal(Tail(row_list))

AllTerms == {SHORT, LONG, UNKNOWN}

\* tax_context.py 12-33
summarize_realized(rows, warnings_) ==
    LET st_total == TermTotal(rows, {SHORT})
        lt_total == TermTotal(rows, {LONG})
        unknown_total == TermTotal(rows, AllTerms \ {SHORT, LONG})
    IN  [ytd_realized_st |-> st_total,
         ytd_realized_lt |-> lt_total,
         ytd_realized_unknown |-> unknown_total,
         ytd_realized_total |-> st_total + lt_total + unknown_total,
         ytd_wash_sale_disallowed_total |-> WashTotal(rows),
         rows_count |-> Len(rows),
         warnings |-> IF rows = <<>>
                      THEN Append(warnings_,
                             "No realized transactions detected; assuming $0 realized gains.")
                      ELSE warnings_]

\* RealizedGainLossRow: the term, the gain or loss and the disallowed wash amount.
RealizedRowShapes ==
    [term : AllTerms, realized_gain_loss : {-5, 0, 3}, wash_sale_disallowed : {<<>>, <<2>>}]

MaxRows == 3

RealizedRowLists == UNION {[1..n -> RealizedRowShapes] : n \in 0..MaxRows}

SummarizeInit ==
    /\ call_pc = "call"
    /\ call_in \in [fn : {"summarize_realized"}, rows : RealizedRowLists,
                    warnings : {<<>>, <<"parse warning">>}]
    /\ call_out = <<>>

\* summarize_realized(rows, warnings)
SummarizeCall ==
    /\ call_pc = "call"
    /\ call_in.fn = "summarize_realized"
    /\ call_out' = summarize_realized(call_in.rows, call_in.warnings)
    /\ call_pc' = "returned"
    /\ UNCHANGED call_in
    /\ UNCHANGED <<sellVars, tlhVars, planVars>>

\* tax_context.py 49-51: max(0.0, x)
PositivePartSigned(x) == x

PositivePart(x) == IF x > 0 THEN x ELSE 0

\* tax_context.py 46-52; the summary is <<>> for None.
compute_loss_target(summary_, goal_) ==
    IF summary_ = <<>> \/ goal_ # GOAL_OFFSET_GAINS THEN 0
    ELSE PositivePart(summary_[1].ytd_realized_st)
         + PositivePart(summary_[1].ytd_realized_lt)
         + PositivePart(summary_[1].ytd_realized_unknown)

\* The realized totals of a RealizedSummary.
RealizedAmounts == {-5, 0, 3, 10}

LossTargetInit ==
    /\ call_pc = "call"
    /\ call_in \in [fn : {"compute_loss_target"},
                    summary : {<<>>} \cup
                              {<<t>> : t \in [ytd_realized_st : RealizedAmounts,
                                              ytd_realized_lt : RealizedAmounts,
                                              ytd_realized_unknown : RealizedAmounts]},
                    goal : {GOAL_OFFSET_GAINS, GOAL_OPPORTUNISTIC, "min_tax"}]
    /\ call_out = <<>>

\* compute_loss_target(summary, goal)
LossTargetCall ==
    /\ call_pc = "call"
    /\ call_in.fn = "compute_loss_target"
    /\ call_out' = compute_loss_target(call_in.summary, call_in.goal)
    /\ call_pc' = "returned"
    /\ UNCHANGED call_in
    /\ UNCHANGED <<sellVars, tlhVars, planVars>>

(***************************************************************************)
(* The construction of a Lot (src/src/models.py): the validator            *)
(* derive_term runs after the fields are set and replaces the term.        *)
(***************************************************************************)
\* models.py 46-55: the term of Lot(..., acquired_date=today - days_held, term=supplied).
ConstructedTerm(supplied, days_held) == derive_term(days_held)

MaxDaysHeld == 370

\* The supplied term is <<>> when the caller leaves the default.
LotInit ==
    /\ call_pc = "call"
    /\ call_in \in [fn : {"Lot"}, days_held : (-2)..MaxDaysHeld,
                    term : {<<>>} \cup {<<t>> : t \in AllTerms}]
    /\ call_out = <<>>

\* Lot(lot_id, symbol, acquired_date, qty, basis_total, term)
LotConstruct ==
    /\ call_pc = "call"
    /\ call_in.fn = "Lot"
    /\ call_out' = ConstructedTerm(call_in.term, call_in.days_held)
    /\ call_pc' = "returned"
    /\ UNCHANGED call_in
    /\ UNCHANGED <<sellVars, tlhVars, planVars>>

(***************************************************************************)
(* Calls of select_sells one after another in one process: a first call,   *)
(* calls on the same candidates with other summaries, and the first call   *)
(* again.  call_pc tells which call runs ("first", "between", "repeat"),   *)
(* call_in holds the arguments of the first call and call_out its result   *)
(* and the number of calls made between.                                   *)
(***************************************************************************)
MaxIntervening == 2

\* AAA lots that lose 15 (short and long) or gain 10 (long), and a BBB lot
\* that loses 6 (short).
RepeatLotShapes ==
    {[symbol |-> "AAA", days_held |-> 30, basis_total |-> 45],
     [symbol |-> "AAA", days_held |-> 800, basis_total |-> 45],
     [symbol |-> "AAA", days_held |-> 800, basis_total |-> 20],
     [symbol |-> "BBB", days_held |-> 30, basis_total |-> 20]}

RepeatPools == UNION {[1..n -> RepeatLotShapes] : n \in 0..MaxLots}

RepeatSummaries == {ctx.summary : ctx \in TaxContextChoices}

RepeatInit ==
    /\ pc = "start"
    /\ \E pool \in RepeatPools : candidates = build_sell_candidates(LotsOf(pool), PriceMap, {})
    /\ \E t \in {0, 5, 44} : target_amount = R(t)
    /\ summary \in RepeatSummaries
    /\ tax_rates = DefaultTaxRates
    /\ goal = "min_tax"
    /\ symbol_weight = SomeWeights
    /\ loss_buckets = NoBuckets
    /\ bucket = 0
    /\ entries = <<>>
    /\ idx = 0
    /\ offsets = [st |-> RZero, lt |-> RZero]
    /\ remaining = RZero
    /\ sells = <<>>
    /\ warnings = <<>>
    /\ plan_warnings = <<>>
    /\ call_pc = "first"
    /\ call_in = [candidates |-> candidates, target_amount |-> target_amount,
                  summary |-> summary, tax_rates |-> tax_rates, goal |-> goal,
                  symbol_weight |-> symbol_weight]
    /\ call_out = <<>>

\* The result of the first call, once it has returned.
FirstResult ==
    IF call_pc = "first" THEN [sells |-> sells, warnings |-> warnings, calls |-> 0]
    ELSE call_out

\* The caller calls select_sells again with another summary; the locals of
\* the call that returned are gone, and the next call sets its own
\* (liquidation.py 101-130).
InterveningCall ==
    /\ pc = "done"
    /\ call_pc \in {"first", "between"}
    /\ FirstResult.calls < MaxIntervening
    /\ call_out' = [FirstResult EXCEPT !.calls = @ + 1]
    /\ summary' \in RepeatSummaries \ {call_in.summary}
    /\ call_pc' = "between"
    /\ pc' = "start"
    /\ UNCHANGED <<candidates, target_amount, tax_rates, goal, symbol_weight, loss_buckets,
                   bucket, entries, idx, offsets, remaining, sells, warnings, plan_warnings>>
    /\ UNCHANGED <<call_in, tlhVars, planVars>>

\* The caller repeats the first call: the same arguments again.
RepeatCall ==
    /\ pc = "done"
    /\ call_pc \in {"first", "between"}
    /\ call_out' = FirstResult
    /\ candidates' = call_in.candidates
    /\ target_amount' = call_in.target_amount
    /\ summary' = call_in.summary
    /\ tax_rates' = call_in.tax_rates
    /\ goal' = call_in.goal
    /\ symbol_weight' = call_in.symbol_weight
    /\ call_pc' = "repeat"
    /\ pc' = "start"
    /\ UNCHANGED <<loss_buckets, bucket, entries, idx, offsets, remaining, sells, warnings,
                   plan_warnings>>
    /\ UNCHANGED <<call_in, tlhVars, planVars>>

(***************************************************************************)
(* The target basket (src/src/portfolio/strategy.py).  A DataFrame is the  *)
(* list of its rows [symbol, weight].  A weight passes through up to       *)
(* twenty redistribution rounds, so the arithmetic on weights cancels the  *)
(* common factors before it multiplies; the values are the same exact      *)
(* rationals.                                                              *)
(***************************************************************************)
WAdd(a, b) ==
    LET g == GCD(a[2], b[2])
    IN  Rat(a[1] * (b[2] \div g) + b[1] * (a[2] \div g), (a[2] \div g) * b[2])

WSub(a, b) == WAdd(a, RNeg(b))

WMul(a, b) ==
    LET g1 == GCD(Abs(a[1]), b[2])
        g2 == GCD(Abs(b[1]), a[2])
    IN  <<(a[1] \div g1) * (b[1] \div g2), (a[2] \div g2) * (b[2] \div g1)>>

WDiv(a, b) == IF b[1] < 0 THEN WMul(a, <<-b[2], -b[1]>>) ELSE WMul(a, <<b[2], b[1]>>)

WLt(a, b) ==
    LET g == GCD(a[2], b[2])
    IN  a[1] * (b[2] \div g) < b[1] * (a[2] \div g)

RECURSIVE WSum(_)
WSum(s) == IF s = <<>> THEN RZero ELSE WAdd(Head(s), WSum(Tail(s)))

\* A list built row by row is evaluated once, when it is built.
Evaluated(s) == s \o <<>>

\* df["weight"]
WeightsOf(df) == Evaluated([i \in DOMAIN df |-> df[i].weight])

\* df["weight"] = ws
WithWeights(df, ws) == Evaluated([i \in DOMAIN df |-> [df[i] EXCEPT !.weight = ws[i]]])

\* df["weight"] / total
Normalized(ws, total) == Evaluated([i \in DOMAIN ws |-> WDiv(ws[i], total)])

\* a > b + 1e-9, for a - b = n/d in lowest terms: n * 10^9 > d
ExceedsByTolerance(a, b) ==
    LET diff == WSub(a, b)
    IN  diff[1] > diff[2] \div 1000000000

\* strategy.py 98: weight > max_weight + 1e-9
OverCap(weight, max_weight) == ExceedsByTolerance(weight, max_weight)

\* strategy.py 97: for _ in range(10)
CapRounds == 10

\* strategy.py 97-107, with `rounds` rounds left.  A remaining weight w
\* becomes w + (w / remaining_total) * excess, which is
\* w * (remaining_total + excess) / remaining_total.
RECURSIVE CapLoop(_, _, _)
CapLoop(ws, max_weight, rounds) ==
    LET over_mask == Evaluated([i \in DOMAIN ws |-> OverCap(ws[i], max_weight)])
        excess == WSum(Evaluated([i \in DOMAIN ws |->
                          IF over_mask[i] THEN WSub(ws[i], max_weight) ELSE RZero]))
        capped == Evaluated([i \in DOMAIN ws |->
                               IF over_mask[i] THEN max_weight ELSE ws[i]])
        remaining_total == WSum(Evaluated([i \in DOMAIN ws |->
                                   IF over_mask[i] THEN RZero ELSE capped[i]]))
        growth == WDiv(WAdd(remaining_total, excess), remaining_total)
    IN  IF rounds = 0 THEN ws
        ELSE IF \A i \in DOMAIN ws : ~over_mask[i] THEN ws
        ELSE IF RLe(remaining_total, RZero) THEN capped
        ELSE CapLoop(Evaluated([i \in DOMAIN ws |->
                        IF over_mask[i] THEN capped[i] ELSE WMul(capped[i], growth)]),
                     max_weight, rounds - 1)

\* cap_and_renormalize(df, max_weight), strategy.py 85-109
cap_and_renormalize(df, max_weight) ==
    LET total == WSum(WeightsOf(df))
        normal == Normalized(WeightsOf(df), total)
        looped == CapLoop(normal, max_weight, CapRounds)
    IN  IF RLe(total, RZero) THEN df
        ELSE IF RLe(max_weight, RZero) \/ RLe(R(1), max_weight)
             THEN WithWeights(df, normal)
        ELSE WithWeights(df, Normalized(looped, WSum(looped)))

\* df.sort_values("weight", ascending=False): rows of equal weight keep
\* their order here.
SortedByWeightDescending(df) ==
    LET n == Len(df)
        Before(j, i) ==
            \/ WLt(df[i].weight, df[j].weight)
            \/ (~WLt(df[j].weight, df[i].weight) /\ j < i)
        Place(i) == Cardinality({j \in 1..n : Before(j, i)}) + 1
    IN  Evaluated([k \in 1..n |-> df[CHOOSE i \in 1..n : Place(i) = k]])

\* limit_to_top_n(df, n), strategy.py 112-119
limit_to_top_n(df, n) ==
    LET sorted == SortedByWeightDescending(df)
        working == IF n > 0 /\ n < Len(sorted) THEN SubSeq(sorted, 1, n) ELSE sorted
        total == WSum(WeightsOf(working))
    IN  IF RLt(RZero, total)
        THEN WithWeights(working, Normalized(WeightsOf(working), total))
        ELSE working

\* src/src/utils/securities.py 7-16, 23-28
DEFAULT_MONEY_MARKET_TICKERS ==
    {"VMFXX", "SPRXX", "SPAXX", "SWVXX", "FDLXX", "SNVXX", "VMMXX", "FZFXX"}

is_money_market_symbol(symbol) == symbol \in DEFAULT_MONEY_MARKET_TICKERS

\* apply_screens(df, spec), strategy.py 61-82, with no screen enabled and
\* no extra exclusions
apply_screens(df, spec) ==
    SelectSeq(df, LAMBDA row : row.symbol \notin spec.excluded_symbols)

\* build_target_basket(universe_df, spec), strategy.py 122-170: the basket
\* and the warnings.
build_target_basket(universe_df, spec) ==
    LET screened == apply_screens(universe_df, spec)
        working == IF spec.include_cash_equivalents THEN screened
                   ELSE SelectSeq(screened, LAMBDA row : ~is_money_market_symbol(row.symbol))
        cash_warnings ==
            IF Len(working) < Len(screened)
            THEN <<"Cash/money-market symbols removed from target basket">>
            ELSE <<>>
        first_cap == cap_and_renormalize(working, spec.max_single_name_weight)
        limited == limit_to_top_n(first_cap, spec.holdings_count)
        second_cap == cap_and_renormalize(limited, spec.max_single_name_weight)
        total == WSum(WeightsOf(second_cap))
        renormalize ==
            /\ WLt(total, Rat(99, 100)) \/ WLt(Rat(101, 100), total)
            /\ RLt(RZero, total)
        final == IF renormalize
                 THEN WithWeights(second_cap, Normalized(WeightsOf(second_cap), total))
                 ELSE second_cap
    IN  IF working = <<>>
        THEN [basket |-> working,
              warnings |-> cash_warnings
                  \o <<"All symbols removed after applying screens/exclusions.">>]
        ELSE IF second_cap = <<>>
        THEN [basket |-> second_cap,
              warnings |-> cash_warnings
                  \o <<"No holdings remain after limiting to requested count.">>]
        ELSE [basket |-> final,
              warnings |-> cash_warnings
                  \o (IF renormalize THEN <<"Weights renormalized after filtering.">>
                      ELSE <<>>)
                  \o (IF Len(final) < spec.holdings_count
                      THEN <<"Fewer holdings available than requested count after screens/exclusions.">>
                      ELSE <<>>)]

(***************************************************************************)
(* Inputs of the basket functions.  A universe has up to MaxNames stocks   *)
(* weighted 1, 2 or 3 parts of the whole and may hold a money-market fund  *)
(* of 2 parts; cap_and_renormalize is also called on weights that are not  *)
(* normalized, zero included.                                              *)
(***************************************************************************)
MaxNames == 3

UniverseSymbols == <<"AAA", "BBB", "CCC", "DDD", "EEE">>

WeightParts == {1, 2, 3}

CapWeightParts == {0, 1, 2, 3}

PartLists(parts) == UNION {[1..k -> parts] : k \in 1..MaxNames}

RowsOfParts(ps) ==
    Evaluated([i \in DOMAIN ps |-> [symbol |-> UniverseSymbols[i], weight |-> R(ps[i])]])

CashRow == [symbol |-> "VMFXX", weight |-> R(2)]

\* load_universe (strategy.py 28-48) accepts weights that sum to 1.
UniverseOf(rows) == WithWeights(rows, Normalized(WeightsOf(rows), WSum(WeightsOf(rows))))

UniverseChoices ==
    {UniverseOf(RowsOfParts(ps)) : ps \in PartLists(WeightParts)}
    \cup {UniverseOf(RowsOfParts(ps) \o <<CashRow>>) : ps \in PartLists(WeightParts)}

\* StrategySpec (models.py 188-194): holdings_count >= 1 and
\* 0 < max_single_name_weight <= 1.
StrategySpecChoices ==
    [holdings_count : 1..MaxNames,
     max_single_name_weight : {Rat(1, 3), Rat(2, 5), Rat(1, 2), R(1)},
     excluded_symbols : {{}, {"BBB"}},
     include_cash_equivalents : BOOLEAN]

MaxWeightChoices == {RZero, Rat(1, 3), Rat(2, 5), Rat(1, 2), R(1)}

CapInit ==
    /\ call_pc = "call"
    /\ call_in \in [fn : {"cap_and_renormalize"},
                    df : {RowsOfParts(ps) : ps \in PartLists(CapWeightParts)},
                    max_weight : MaxWeightChoices]
    /\ call_out = <<>>

\* cap_and_renormalize(df, max_weight)
CapCall ==
    /\ call_pc = "call"
    /\ call_in.fn = "cap_and_renormalize"
    /\ call_out' = <<cap_and_renormalize(call_in.df, call_in.max_weight)>>
    /\ call_pc' = "capped"
    /\ UNCHANGED call_in
    /\ UNCHANGED <<sellVars, tlhVars, planVars>>

\* cap_and_renormalize(capped, max_weight), on the result of the first call
CapAgain ==
    /\ call_pc = "capped"
    /\ call_out' = call_out \o <<cap_and_renormalize(call_out[1], call_in.max_weight)>>
    /\ call_pc' = "returned"
    /\ UNCHANGED call_in
    /\ UNCHANGED <<sellVars, tlhVars, planVars>>

BasketInit ==
    /\ call_pc = "call"
    /\ call_in \in [fn : {"build_target_basket"},
                    universe_df : UniverseChoices,
                    spec : StrategySpecChoices]
    /\ call_out = <<>>

\* build_target_basket(universe_df, spec)
BasketCall ==
    /\ call_pc = "call"
    /\ call_in.fn = "build_target_basket"
    /\ call_out' = build_target_basket(call_in.universe_df, call_in.spec)
    /\ call_pc' = "returned"
    /\ UNCHANGED call_in
    /\ UNCHANGED <<sellVars, tlhVars, planVars>>

(***************************************************************************)
(* The two selectors on the same arguments: select_sells of liquidation.py *)
(* runs first, its result is kept in call_out, and _select_sells of        *)
(* withdrawals.py runs on the same candidates, target, summary, rates,     *)
(* goal and weights.                                                       *)
(***************************************************************************)
SecondSelector ==
    /\ pc = "done"
    /\ call_pc = "idle"
    /\ call_out' = [sells |-> sells, warnings |-> warnings]
    /\ call_pc' = "second"
    /\ pc' = "wd_start"
    /\ UNCHANGED <<sellArgs, loss_buckets, bucket, entries, idx, offsets, remaining, sells,
                   warnings, plan_warnings, call_in>>
    /\ UNCHANGED <<tlhVars, planVars>>

Init == SellInit /\ TlhIdle /\ PlanIdle /\ CallIdle

Next == SellNextStep

\* One call of select_sells, and the planner's step after it.
Spec == Init /\ [][Next]_vars

InitTLH == TlhInit /\ SellIdle /\ PlanIdle /\ CallIdle

NextTLH == TlhNextStep

\* One call of identify_candidates.
SpecTLH == InitTLH /\ [][NextTLH]_vars

InitPlan == PlanInit /\ TlhIdle /\ CallIdle

NextPlan == TransitionStart \/ SellNextStep \/ WithdrawalNextStep

\* One call of build_transition_plan or of build_withdrawal_proposal.
SpecPlan == InitPlan /\ [][NextPlan]_vars

InitFilter == TlhFilterInit /\ SellIdle /\ PlanIdle /\ CallIdle

NextFilter == TlhNextStep

\* One call of identify_candidates, on lots around the thresholds.
SpecFilter == InitFilter /\ [][NextFilter]_vars

InitNotes == TlhNotesInit /\ SellIdle /\ PlanIdle /\ CallIdle

NextNotes == TlhNextStep

\* One call of identify_candidates, on lots near long-term status and
\* trades around the wash-sale window.
SpecNotes == InitNotes /\ [][NextNotes]_vars

InitManage == ManageInit /\ TlhIdle /\ CallIdle

NextManage ==
    \/ RebalanceStart \/ SellStart \/ SellNext \/ SellFinish
    \/ RebalanceReturn
    \/ ManageTlhStart \/ TlhStart \/ TlhTake \/ ManageTlhReturn

\* One call of build_strategy_manage_plan, in rebalance, TLH or combined mode.
SpecManage == InitManage /\ [][NextManage]_vars

InitSummarize == SummarizeInit /\ SellIdle /\ TlhIdle /\ PlanIdle

NextSummarize == SummarizeCall

\* One call of summarize_realized.
SpecSummarize == InitSummarize /\ [][NextSummarize]_vars

InitLossTarget == LossTargetInit /\ SellIdle /\ TlhIdle /\ PlanIdle

NextLossTarget == LossTargetCall

\* One call of compute_loss_target.
SpecLossTarget == InitLossTarget /\ [][NextLossTarget]_vars

InitLot == LotInit /\ SellIdle /\ TlhIdle /\ PlanIdle

NextLot == LotConstruct

\* The construction of one Lot.
SpecLot == InitLot /\ [][NextLot]_vars

InitRepeat == RepeatInit /\ TlhIdle /\ PlanIdle

NextRepeat ==
    \/ SellReturnEmpty \/ SellStart \/ SellNext \/ SellFinish
    \/ InterveningCall \/ RepeatCall

\* Calls of select_sells one after another.
SpecRepeat == InitRepeat /\ [][NextRepeat]_vars

InitCap == CapInit /\ SellIdle /\ TlhIdle /\ PlanIdle

NextCap == CapCall \/ CapAgain

\* cap_and_renormalize, and cap_and_renormalize again on its result.
SpecCap == InitCap /\ [][NextCap]_vars

InitBasket == BasketInit /\ SellIdle /\ TlhIdle /\ PlanIdle

NextBasket == BasketCall

\* One call of build_target_basket.
SpecBasket == InitBasket /\ [][NextBasket]_vars

InitSelectors == SellInit /\ TlhIdle /\ PlanIdle /\ CallIdle

NextSelectors ==
    \/ SellReturnEmpty \/ SellStart \/ SellNext \/ SellFinish
    \/ SecondSelector
    \/ WdReturnEmpty \/ WdStart \/ WdNext \/ WdFinish

\* One call of select_sells, then one call of _select_sells on its arguments.
SpecSelectors == InitSelectors /\ [][NextSelectors]_vars

(***************************************************************************)
(* Properties of select_sells.                                             *)
(***************************************************************************)
Returned == pc \in {"done", "returned"}

\* The candidate a sell was taken from.
CandOf(sell) == CHOOSE c \in Range(candidates) : c.lot.lot_id = sell.lot_id

IsLoss(c) == RLt(c.gain, RZero)

\* 1 short-term loss, 2 long-term loss, 3 long-term gain, 4 short-term gain.
Rank(c) ==
    IF IsLoss(c) THEN (IF c.lot.term = SHORT THEN 1 ELSE 2)
    ELSE (IF c.lot.term = LONG THEN 3 ELSE 4)

SoldInFull(c, upto) ==
    \E i \in 1..upto : sells[i].lot_id = c.lot.lot_id /\ sells[i].qty = R(c.lot.qty)

\* Cumulative proceeds of the first k sells.
Cum(k) == RSum([i \in 1..k |-> sells[i].proceeds])

\* C1: the sells follow the bucket order short-term loss, long-term loss,
\* long-term gain, short-term gain: no sell of a later bucket precedes a sell
\* of an earlier one, a lot of a later bucket is sold only after every
\* candidate of the earlier buckets was sold in full, and with a positive
\* target and a short-term loss lot in the pool the first sell is a
\* short-term loss lot.
C1_BucketOrder ==
    /\ \A i, j \in 1..Len(sells) : i < j => Rank(CandOf(sells[i])) <= Rank(CandOf(sells[j]))
    /\ \A j \in 1..Len(sells) : \A c \in Range(candidates) :
          Rank(c) < Rank(CandOf(sells[j])) => SoldInFull(c, j - 1)
    /\ (Returned /\ RLt(RZero, target_amount) /\ \E c \in Range(candidates) : Rank(c) = 1)
          => (sells # <<>> /\ Rank(CandOf(sells[1])) = 1)

C1_Witness ==
    /\ Returned
    /\ goal = "min_drift"
    /\ Len(sells) = 3
    /\ Rank(CandOf(sells[1])) = 1
    /\ Rank(CandOf(sells[2])) = 2
    /\ Rank(CandOf(sells[3])) = 3
    /\ candidates[1].lot.lot_id = sells[3].lot_id

\* C2: the sell that brings the cumulative proceeds to the target is the
\* last one: no sell is taken once the cumulative proceeds are >= target.
C2_StopsAtTarget ==
    \A k \in 1..(Len(sells) - 1) : RLt(Cum(k), target_amount)

C2_Witness ==
    /\ Returned
    /\ Len(sells) = 2
    /\ Len(candidates) = 3
    /\ RLe(target_amount, Cum(2))
    /\ \E c \in Range(candidates) :
          /\ \A i \in 1..2 : sells[i].lot_id # c.lot.lot_id
          /\ Rank(c) = Rank(CandOf(sells[2]))

AllProceeds == RSum([i \in 1..Len(candidates) |-> candidates[i].proceeds])

ReachedEnd == "Reached end of candidates before hitting target."
Unable == "Unable to fully fund strategy allocation with available lots."

\* The loop can take its next candidate; the loop can end.
CanSell == bucket \in 1..4 /\ idx \in 1..Len(entries) /\ RLt(RZero, remaining)
CanFinish == bucket = 5 \/ RLe(remaining, RZero)

C4_DegenerateTarget ==
    (RLe(target_amount, RZero) /\ pc # "start") =>
        /\ Returned
        /\ sells = <<>>
        /\ warnings = <<>>

C4_Witness ==
    /\ pc = "done"
    /\ RLt(target_amount, RZero)
    /\ Len(candidates) = 3
    /\ goal = "balanced"

\* C5: every sell has 0 < qty <= lot.qty, basis = lot.basis_total * (qty / lot.qty),
\* proceeds = qty * price and gain_loss = proceeds - basis.
C5_SellArithmetic ==
    \A i \in 1..Len(sells) :
        LET sell == sells[i]
            lot == CandOf(sell).lot
        IN  /\ RLt(RZero, sell.qty)
            /\ RLe(sell.qty, R(lot.qty))
            /\ sell.basis = RMul(R(lot.basis_total), RDiv(sell.qty, R(lot.qty)))
            /\ sell.proceeds = RMul(sell.qty, sell.price)
            /\ sell.gain_loss = RSub(sell.proceeds, sell.basis)

C5_Witness ==
    /\ Len(sells) = 2
    /\ sells[1].qty = R(CandOf(sells[1]).lot.qty)
    /\ RLt(sells[2].qty, R(CandOf(sells[2]).lot.qty))
    /\ sells[2].basis # R(CandOf(sells[2]).lot.basis_total)
    /\ sells[2].qty[2] # 1

OffsetsLe(a, b) == RLe(a.st, b.st) /\ RLe(a.lt, b.lt)

SeedOffsets ==
    [st |-> RMax(RZero, summary.ytd_realized_st), lt |-> RMax(RZero, summary.ytd_realized_lt)]

\* C6: the offset pools start at max(0, ytd_realized_st) and
\* max(0, ytd_realized_lt); every sell leaves each pool less than or equal
\* to its previous value, and no pool is ever negative.
C6_OffsetsMonotone ==
    /\ [][(pc = "start" /\ pc' = "loop") => offsets' = SeedOffsets]_vars
    /\ [][pc = "loop" => OffsetsLe(offsets', offsets)]_vars
    /\ [][RLe(RZero, offsets'.st) /\ RLe(RZero, offsets'.lt)]_vars

C6_Witness ==
    /\ Returned
    /\ Len(sells) = 3
    /\ offsets.st = RZero
    /\ RLt(RZero, summary.ytd_realized_st)
    /\ RLt(RZero, offsets.lt)
    /\ RLt(offsets.lt, summary.ytd_realized_lt)

RateOf(term) == IF term = LONG THEN tax_rates.long_term ELSE tax_rates.short_term

\* C7 as stated: every sell from a loss bucket has estimated_tax < 0 and
\* every sell from a gain bucket has estimated_tax > 0.
C7_TaxSignStrict ==
    \A i \in 1..Len(sells) :
        IF IsLoss(CandOf(sells[i])) THEN RLt(sells[i].estimated_tax, RZero)
        ELSE RLt(RZero, sells[i].estimated_tax)

\* C7 amended: a sell from a loss bucket never has estimated_tax > 0 and a
\* sell from a gain bucket never has estimated_tax < 0; the tax is exactly 0
\* when the sale's gain is 0 or the lot's term rate plus the state rate is
\* 0, and strictly negative (loss) or positive (gain) otherwise.
C7_TaxSign ==
    \A i \in 1..Len(sells) :
        LET sell == sells[i]
            zero == sell.gain_loss = RZero \/ RAdd(RateOf(sell.term), tax_rates.state) = RZero
        IN  IF zero THEN sell.estimated_tax = RZero
            ELSE IF IsLoss(CandOf(sell)) THEN RLt(sell.estimated_tax, RZero)
            ELSE RLt(RZero, sell.estimated_tax)

C7_Witness ==
    /\ Len(sells) = 3
    /\ \E i, j, k \in 1..3 :
          /\ IsLoss(CandOf(sells[i])) /\ RLt(sells[i].estimated_tax, RZero)
          /\ ~IsLoss(CandOf(sells[j])) /\ sells[j].gain_loss = RZero
          /\ sells[j].estimated_tax = RZero
          /\ ~IsLoss(CandOf(sells[k])) /\ RLt(RZero, sells[k].estimated_tax)

(***************************************************************************)
(* Properties of identify_candidates.                                      *)
(***************************************************************************)
TlhReturned == tlh_pc = "done"

\* The list the call returns is a prefix of the sorted candidate list.
IsPrefix(a, b) == Len(a) <= Len(b) /\ a = SubSeq(b, 1, Len(a))

\* Sum of -unrealized_pl over the first k sorted candidates.
LossUpTo(k) == RSum([i \in 1..k |-> RNeg(tlh_candidates[i].unrealized_pl)])

\* The cumulative loss of the first k candidates is at least 95% of the target.
Crossed(k) == RLe(RMul(Rat(95, 100), tlh_args.loss_target), LossUpTo(k))

LossStopApplies ==
    tlh_args.tlh_goal = "offset_gains" /\ RLt(RZero, tlh_args.loss_target)

\* C8: with goal offset_gains and a positive loss target the returned list
\* is a prefix of the sorted candidates; no candidate is returned after one
\* at which the cumulative loss reached 95% of the target; the first such
\* candidate is the last one returned when max_candidates allows it; and a
\* list that stops short of the end stops at the crossing or at the cap.
C8_LossTargetStop ==
    (TlhReturned /\ LossStopApplies) =>
        /\ IsPrefix(filtered, tlh_candidates)
        /\ \A k \in 1..(Len(filtered) - 1) : ~Crossed(k)
        /\ \A k \in 1..Len(tlh_candidates) :
              (Crossed(k) /\ (\A j \in 1..(k - 1) : ~Crossed(j)) /\ k <= tlh_args.max_candidates)
                 => Len(filtered) = k
        /\ Len(filtered) < Len(tlh_candidates) =>
              (Crossed(Len(filtered)) \/ Len(filtered) >= tlh_args.max_candidates)

C8_Witness ==
    /\ TlhReturned
    /\ LossStopApplies
    /\ Len(tlh_candidates) = 3
    /\ Len(filtered) = 2
    /\ tlh_args.max_candidates = 3
    /\ ~Crossed(1)
    /\ Crossed(2)
    /\ RLt(LossUpTo(2), tlh_args.loss_target)

\* C9 as stated: the call never returns more than max_candidates candidates.
C9_CapRespected ==
    TlhReturned => Len(filtered) <= tlh_args.max_candidates

\* The priority term as the claim gives it.
ClaimedPriorityTerm ==
    LET rs == tlh_args.realized_summary
    IN  IF rs.present /\ RLt(RZero, rs.ytd_realized_st) THEN SHORT
        ELSE IF rs.present /\ RLt(RZero, rs.ytd_realized_lt) THEN LONG
        ELSE SHORT

PriorityOrdered(list) ==
    \A i, j \in 1..Len(list) : i < j =>
        /\ list[j].term = ClaimedPriorityTerm => list[i].term = ClaimedPriorityTerm
        /\ list[i].term = list[j].term => RLe(list[i].unrealized_pl, list[j].unrealized_pl)

\* C10: in the sorted candidates, and so in the returned list, every
\* candidate of the priority term (SHORT if ytd_realized_st > 0, else LONG
\* if ytd_realized_lt > 0, else SHORT, also without a summary) comes before
\* every other candidate, and among candidates of one term the more
\* negative unrealized_pl comes first.
C10_PriorityOrder ==
    tlh_pc \in {"loop", "done"} =>
        /\ PriorityOrdered(tlh_candidates)
        /\ PriorityOrdered(filtered)
        /\ IsPrefix(filtered, tlh_candidates)

C10_Witness ==
    /\ TlhReturned
    /\ ClaimedPriorityTerm = LONG
    /\ Len(filtered) = 3
    /\ filtered[1].term = LONG
    /\ filtered[2].term = LONG
    /\ filtered[3].term = SHORT
    /\ RLt(filtered[1].unrealized_pl, filtered[2].unrealized_pl)
    /\ RLt(filtered[3].unrealized_pl, filtered[2].unrealized_pl)
    /\ tlh_args.lots[1].term = SHORT

\* The lot may be considered: it has a price and a positive basis.
Valued(lot) == HasPrice(tlh_args.price_map, lot.symbol) /\ lot.basis_total > 0

PlOf(lot) == RSub(R(tlh_args.price_map[lot.symbol] * lot.qty), R(lot.basis_total))

PlPctOf(lot) == RDiv(PlOf(lot), R(lot.basis_total))

CandidateIds == {tlh_candidates[i].lot_id : i \in 1..Len(tlh_candidates)}

ClearsInclusive(lot) ==
    /\ Valued(lot)
    /\ RLe(PlOf(lot), RNeg(RAbs(tlh_args.loss_threshold)))
    /\ RLe(PlPctOf(lot), RNeg(RAbs(tlh_args.loss_pct_threshold)))

InclusiveIds == {lot.lot_id : lot \in {l \in Range(tlh_args.lots) : ClearsInclusive(l)}}

ClearsStrict(lot) ==
    /\ Valued(lot)
    /\ RLt(PlOf(lot), RNeg(RAbs(tlh_args.loss_threshold)))
    /\ RLt(PlPctOf(lot), RNeg(RAbs(tlh_args.loss_pct_threshold)))

StrictIds == {lot.lot_id : lot \in {l \in Range(tlh_args.lots) : ClearsStrict(l)}}

\* C11 as stated: the candidates are exactly the lots with a price and a
\* positive basis that have unrealized_pl <= -|threshold| and
\* pl_pct <= -|pct_threshold|.
C11_FilterInclusive ==
    tlh_pc \in {"loop", "done"} => CandidateIds = InclusiveIds

\* C11 amended: the candidates are exactly the lots with a price and a
\* positive basis that have unrealized_pl < -|threshold| and
\* pl_pct < -|pct_threshold| (a lot exactly at a bar is dropped); lots with
\* no price or basis_total <= 0 are dropped; the sign of a threshold passed
\* in makes no difference; and within max_candidates every kept lot is
\* returned.
C11_FilterStrict ==
    tlh_pc \in {"loop", "done"} =>
        /\ CandidateIds = StrictIds
        /\ Len(tlh_candidates) = Cardinality(CandidateIds)
        /\ (tlh_pc = "done" /\ Len(tlh_candidates) <= tlh_args.max_candidates)
              => filtered = tlh_candidates

C11_Witness ==
    /\ tlh_pc = "done"
    /\ RLt(tlh_args.loss_threshold, RZero)
    /\ Len(tlh_args.lots) = 3
    /\ Len(filtered) = 1
    /\ \E i \in 1..3 : ~Valued(tlh_args.lots[i])
    /\ \E i \in 1..3 : LET lot == tlh_args.lots[i]
                       IN  /\ Valued(lot)
                           /\ PlOf(lot) = RNeg(RAbs(tlh_args.loss_threshold))
                           /\ RLt(PlPctOf(lot), RNeg(RAbs(tlh_args.loss_pct_threshold)))

(***************************************************************************)
(* Properties of the planners.                                             *)
(***************************************************************************)
\* The exclusion list the caller gave, upper-cased.
ExcludedUpper ==
    {Upper(sym) : sym \in Range(IF plan_in.planner = "transition"
                                THEN plan_in.request.excluded_from_selling
                                ELSE plan_in.exclude_symbols)}

IsExcluded(symbol) == Upper(symbol) \in ExcludedUpper

\* C12: in a withdrawal proposal and in a transition plan no sell (and no
\* candidate) has a symbol of the exclusion list, compared without regard
\* to case; when every lot is excluded there are no sells and the total
\* proceeds are 0.
C12_Exclusions ==
    pc # "plan" =>
        /\ \A i \in 1..Len(candidates) : ~IsExcluded(candidates[i].lot.symbol)
        /\ \A i \in 1..Len(sells) : ~IsExcluded(sells[i].symbol)
        /\ (\A i \in 1..Len(plan_in.lots) : IsExcluded(plan_in.lots[i].symbol))
              => (sells = <<>> /\ TotalProceeds(sells) = RZero)

C12_Witness ==
    /\ pc = "returned"
    /\ plan_in.planner = "withdrawal"
    /\ plan_in.exclude_symbols = <<"aaa">>
    /\ \E i \in 1..Len(plan_in.lots) : plan_in.lots[i].symbol = "AAA"
    /\ Len(sells) = 2
    /\ RLt(TotalProceeds(sells), target_amount)

\* Market value of the cash-equivalent holdings.
CashEquivalentsValue ==
    LET hs == plan_in.holdings
        Mv(h) == IF h.market_value # <<>> THEN h.market_value[1]
                 ELSE IF h.price # <<>> THEN h.price[1] * h.qty ELSE 0
        RECURSIVE Sum(_)
        Sum(k) == IF k = 0 THEN 0
                  ELSE (IF hs[k].is_cash_equivalent THEN Mv(hs[k]) ELSE 0) + Sum(k - 1)
    IN  Sum(Len(hs))

\* allocation_amount + buffer, and the cash available, of a transition request.
TransitionNeed ==
    LET rq == plan_in.request
        buffer == IF rq.cash_buffer_amount # <<>> THEN R(rq.cash_buffer_amount[1])
                  ELSE IF rq.cash_buffer_pct # <<>>
                  THEN RMul(R(rq.allocation_amount), rq.cash_buffer_pct[1])
                  ELSE RZero
    IN  RAdd(R(rq.allocation_amount), buffer)

TransitionCash ==
    R(plan_in.request.manual_cash_available
      + (IF plan_in.request.use_cash_equivalents_first THEN CashEquivalentsValue ELSE 0))

\* C13: in build_transition_plan, when the available cash is at least
\* allocation_amount + buffer, cash_needed_from_sales is 0 and there are no
\* sells, whatever lots exist.
C13_CashFirst ==
    (plan_in.planner = "transition" /\ pc # "plan" /\ RLe(TransitionNeed, TransitionCash)) =>
        /\ plan_out.cash_needed_from_sales = RZero
        /\ plan_out.cash_available = TransitionCash
        /\ sells = <<>>

C13_Witness ==
    /\ pc = "returned"
    /\ plan_in.planner = "transition"
    /\ RLt(TransitionNeed, TransitionCash)
    /\ plan_in.request.manual_cash_available < 50
    /\ Len(candidates) = 3
    /\ sells = <<>>
    /\ plan_warnings = <<>>

WithdrawalCash == R(plan_in.manual_cash + CashEquivalentsValue)

\* C14 as stated: amount_needed_from_sales = max(0, withdrawal_amount + buffer
\* - cash_available) with buffer = withdrawal_amount * cushion_pct, and the
\* reported buffer_amount is withdrawal_amount * cushion_pct.
C14_TargetFormula ==
    (plan_in.planner = "withdrawal" /\ pc # "plan") =>
        LET buffer == RMul(R(plan_in.withdrawal_amount), plan_in.cushion_pct)
        IN  /\ plan_out.buffer_amount = buffer
            /\ plan_out.amount_needed_from_sales =
                  RMax(RZero, RSub(RAdd(R(plan_in.withdrawal_amount), buffer), WithdrawalCash))

\* C14 amended: the same with buffer = max(withdrawal_amount * cushion_pct, 0):
\* amount_needed_from_sales = max(0, withdrawal_amount + buffer -
\* cash_available), cash_available = manual cash + market value of the
\* cash-equivalent holdings, and the reported buffer_amount is that buffer;
\* the selector is called with that target.
C14_TargetFormulaClamped ==
    (plan_in.planner = "withdrawal" /\ pc # "plan") =>
        LET product == RMul(R(plan_in.withdrawal_amount), plan_in.cushion_pct)
            buffer == IF RLt(product, RZero) THEN RZero ELSE product
        IN  /\ plan_out.buffer_amount = buffer
            /\ plan_out.cash_available = WithdrawalCash
            /\ plan_out.amount_needed_from_sales =
                  RMax(RZero, RSub(RAdd(R(plan_in.withdrawal_amount), buffer), WithdrawalCash))
            /\ target_amount = plan_out.amount_needed_from_sales

C14_Witness ==
    /\ pc = "returned"
    /\ plan_in.planner = "withdrawal"
    /\ RLt(RZero, plan_out.buffer_amount)
    /\ CashEquivalentsValue > 0
    /\ RLt(RZero, plan_out.amount_needed_from_sales)
    /\ RLt(plan_out.amount_needed_from_sales, R(plan_in.withdrawal_amount))
    /\ sells # <<>>
    /\ TotalProceeds(sells) = target_amount

(***************************************************************************)
(* Properties of build_strategy_manage_plan.                               *)
(***************************************************************************)
RebalanceReturned ==
    /\ pc = "returned"
    /\ plan_in # <<>>
    /\ plan_in.planner = "manage"
    /\ plan_in.settings.mode = "rebalance"

\* sleeve_value * turnover_cap_pct of the call.
TurnoverCap ==
    RMul(R(compute_sleeve_snapshot(plan_in.holdings, plan_in.basket_df).sleeve_value),
         plan_in.settings.turnover_cap_pct)

\* Some basket symbol is held above its target weight by more than the tolerance.
OverweightBeyondTolerance ==
    LET snapshot == compute_sleeve_snapshot(plan_in.holdings, plan_in.basket_df)
    IN  \E i \in 1..Len(plan_in.basket_df) :
            RLt(plan_in.settings.drift_tolerance_pct,
                RSub(WeightGet(snapshot.weights, Upper(plan_in.basket_df[i].symbol)),
                     plan_in.basket_df[i].weight))

\* C15: in rebalance mode the target handed to select_sells is the smaller
\* of the overweight dollars and sleeve_value * turnover_cap_pct, and the
\* proceeds of the rebalance sells never exceed that cap; a cap of zero
\* leaves no rebalance sells and the turnover-cap warning; and a symbol
\* overweight beyond the tolerance yields rebalance sells or a warning.
C15_TurnoverCap ==
    /\ (pc \in {"start", "loop", "done"} /\ plan_in # <<>> /\ plan_in.planner = "manage")
          => /\ RLe(target_amount, TurnoverCap)
             /\ RLe(target_amount, DictSum(plan_out.overweights))
             /\ \/ RLe(TurnoverCap, target_amount)
                \/ RLe(DictSum(plan_out.overweights), target_amount)
    /\ RebalanceReturned
          => /\ RLe(TotalProceeds(sells), TurnoverCap)
             /\ (OverweightBeyondTolerance /\ RLe(TurnoverCap, RZero))
                   => /\ sells = <<>>
                      /\ "Turnover cap prevents rebalancing trades." \in Range(plan_warnings)
             /\ OverweightBeyondTolerance => (sells # <<>> \/ plan_warnings # <<>>)

\* A rebalance whose sells stop at the turnover cap, below the overweight dollars.
C15_Witness ==
    /\ RebalanceReturned
    /\ sells # <<>>
    /\ RLe(TurnoverCap, TotalProceeds(sells))
    /\ RLt(TurnoverCap, DictSum(plan_out.overweights))

TlhModeCall ==
    /\ plan_in # <<>>
    /\ plan_in.planner = "manage"
    /\ plan_in.settings.mode = "tlh"

\* C16: in TLH mode build_strategy_manage_plan raises nothing and returns
\* a plan; every returned plan with a TLH sell has buy targets; and when a
\* harvested lot has no other underweight symbol to go to, the buys hold the
\* generic replacement basket and a warning names the sold symbol.
C16_FallbackBasket ==
    TlhModeCall =>
        /\ pc # "raised"
        /\ pc = "returned" =>
              /\ plan_out.tlh_sells # <<>> => plan_out.buy_targets # <<>>
              /\ \A i \in 1..Len(plan_warnings) :
                    /\ \E j \in 1..Len(plan_out.tlh_sells) :
                          plan_warnings[i][2] = plan_out.tlh_sells[j].symbol
                    /\ \A k \in 1..Len(GENERIC_PROXIES) :
                          \E b \in Range(plan_out.buy_targets) : b.symbol = GENERIC_PROXIES[k]

(***************************************************************************)
(* Properties of the realized-gains summary.                               *)
(***************************************************************************)
SummarizeReturned ==
    /\ call_pc = "returned"
    /\ call_in # <<>>
    /\ call_in.fn = "summarize_realized"

\* The rows of call_in whose term is in terms.
RowsOfTerm(terms) == {i \in 1..Len(call_in.rows) : call_in.rows[i].term \in terms}

RECURSIVE GainOver(_)
GainOver(indices) ==
    IF indices = {} THEN 0
    ELSE LET i == CHOOSE x \in indices : TRUE
         IN  call_in.rows[i].realized_gain_loss + GainOver(indices \ {i})

\* C17: summarize_realized adds each row to exactly one of the short-term,
\* long-term and unknown totals, by its term; the total is their sum;
\* rows_count is the number of rows; and an empty list gives totals of zero
\* and the warning that no realized transactions were detected.
C17_Summarize ==
    SummarizeReturned =>
        /\ call_out.ytd_realized_st = GainOver(RowsOfTerm({SHORT}))
        /\ call_out.ytd_realized_lt = GainOver(RowsOfTerm({LONG}))
        /\ call_out.ytd_realized_unknown = GainOver(RowsOfTerm({UNKNOWN}))
        /\ call_out.ytd_realized_st + call_out.ytd_realized_lt + call_out.ytd_realized_unknown
              = GainOver(1..Len(call_in.rows))
        /\ call_out.ytd_realized_total
              = call_out.ytd_realized_st + call_out.ytd_realized_lt
                + call_out.ytd_realized_unknown
        /\ call_out.rows_count = Len(call_in.rows)
        /\ call_in.rows = <<>> =>
              /\ call_out.ytd_realized_st = 0
              /\ call_out.ytd_realized_lt = 0
              /\ call_out.ytd_realized_unknown = 0
              /\ call_out.ytd_realized_total = 0
              /\ "No realized transactions detected; assuming $0 realized gains."
                    \in Range(call_out.warnings)

\* A summary of three rows, one of each term, each with a gain or a loss.
C17_Witness ==
    /\ SummarizeReturned
    /\ Len(call_in.rows) = 3
    /\ \A t \in AllTerms : \E i \in RowsOfTerm({t}) : call_in.rows[i].realized_gain_loss # 0

LossTargetReturned ==
    /\ call_pc = "returned"
    /\ call_in # <<>>
    /\ call_in.fn = "compute_loss_target"

\* The gains among three realized totals.
GainsOf(t) ==
    (IF t.ytd_realized_st > 0 THEN t.ytd_realized_st ELSE 0)
    + (IF t.ytd_realized_lt > 0 THEN t.ytd_realized_lt ELSE 0)
    + (IF t.ytd_realized_unknown > 0 THEN t.ytd_realized_unknown ELSE 0)

\* C18: compute_loss_target is never negative; for the goal offset_gains
\* and a summary it is the sum of the positive parts of the short-term,
\* long-term and unknown totals; for any other goal, or without a summary,
\* it is 0.
C18_LossTarget ==
    LossTargetReturned =>
        /\ call_out >= 0
        /\ IF call_in.summary # <<>> /\ call_in.goal = "offset_gains"
           THEN call_out = GainsOf(call_in.summary[1])
           ELSE call_out = 0

\* A target for offset_gains that leaves out a realized loss.
C18_Witness ==
    /\ LossTargetReturned
    /\ call_in.goal = "offset_gains"
    /\ call_in.summary # <<>>
    /\ call_in.summary[1].ytd_realized_st < 0
    /\ call_in.summary[1].ytd_realized_lt > 0
    /\ call_out > 0

(***************************************************************************)
(* Properties of repeated calls of select_sells.                           *)
(***************************************************************************)
RepeatReturned ==
    /\ call_pc = "repeat"
    /\ pc = "done"

\* C19: a call of select_sells leaves the candidate list and the
\* RealizedSummary it was given as they were, and the first call repeated
\* with the same arguments, after calls with other summaries, returns the
\* sells and the warnings of the first call.
C19_CallScoped ==
    /\ [][(pc = "start" \/ pc = "loop")
             => (candidates' = candidates /\ summary' = summary)]_vars
    /\ [][(call_pc = "repeat" /\ pc' = "done")
             => (sells' = call_out.sells /\ warnings' = call_out.warnings)]_vars
    /\ [][(call_pc' = "repeat" /\ pc' = "start")
             => (candidates' = call_in.candidates /\ summary' = call_in.summary
                 /\ target_amount' = call_in.target_amount)]_vars

\* The first call repeated after two calls with other summaries that used
\* their offsets, where a loss sale exceeds the short-term pool of the call.
C19_Witness ==
    /\ RepeatReturned
    /\ call_out.calls = 2
    /\ Len(sells) >= 2
    /\ RLt(RZero, call_in.summary.ytd_realized_st)
    /\ offsets.st = RZero
    /\ \E i \in 1..Len(sells) : sells[i].term = SHORT /\ RLt(sells[i].gain_loss, RZero)

(***************************************************************************)
(* Properties of the Lot.                                                  *)
(***************************************************************************)
LotConstructed ==
    /\ call_pc = "returned"
    /\ call_in # <<>>
    /\ call_in.fn = "Lot"

\* C20: the term of a constructed Lot does not depend on the supplied
\* term and is never UNKNOWN: it is SHORT when the lot has been held 365
\* days or fewer and LONG when it has been held more than 365 days.
C20_TermDerivation ==
    LotConstructed =>
        /\ call_out # UNKNOWN
        /\ call_in.days_held <= 365 => call_out = SHORT
        /\ call_in.days_held > 365 => call_out = LONG

(***************************************************************************)
(* Further properties of select_sells.                                     *)
(***************************************************************************)
Bucketed == pc \in {"loop", "done", "returned"} /\ RLt(RZero, target_amount)

\* The places at which a candidate stands in the four buckets.
PlacesOf(cand) ==
    {<<k, j>> \in (DOMAIN NoBuckets) \X (1..Len(candidates)) :
        j <= Len(loss_buckets[k]) /\ loss_buckets[k][j] = cand}

\* The bucket that the sign of the full-lot gain and the term call for.
ClaimedBucket(cand) ==
    CASE RLt(cand.gain, RZero) /\ cand.lot.term = SHORT -> "loss_st"
      [] RLt(cand.gain, RZero) /\ cand.lot.term = LONG -> "loss_lt"
      [] RLe(RZero, cand.gain) /\ cand.lot.term = LONG -> "gain_lt"
      [] RLe(RZero, cand.gain) /\ cand.lot.term = SHORT -> "gain_st"

\* C21: every candidate stands at exactly one place of the four buckets,
\* in the bucket given by the sign of its full-lot gain and its term, and
\* the buckets hold nothing but the candidates.
C21_BucketPartition ==
    Bucketed =>
        /\ \A i \in 1..Len(candidates) :
              /\ Cardinality(PlacesOf(candidates[i])) = 1
              /\ \A p \in PlacesOf(candidates[i]) : p[1] = ClaimedBucket(candidates[i])
        /\ \A k \in DOMAIN NoBuckets : Len(loss_buckets[k]) <= Len(candidates)
        /\ \A k \in DOMAIN NoBuckets : \A j \in 1..Len(loss_buckets[k]) :
              \E i \in 1..Len(candidates) : candidates[i] = loss_buckets[k][j]

\* Three candidates in three buckets, one of them with a gain of exactly 0.
C21_Witness ==
    /\ Bucketed
    /\ Len(candidates) = 3
    /\ \E i \in 1..3 : candidates[i].gain = RZero
    /\ \E i \in 1..3 : RLt(candidates[i].gain, RZero)
    /\ Cardinality({k \in DOMAIN NoBuckets : loss_buckets[k] # <<>>}) = 3

(***************************************************************************)
(* Properties of the notes of identify_candidates.                         *)
(***************************************************************************)
NearLongTermNote == "Lot is within 14 days of long-term status; consider holding"

WashSaleNote == "Recent buy detected; wash-sale risk"

\* The lot of tlh_args that a candidate was made from.
LotOfCandidate(c) == CHOOSE lot \in Range(tlh_args.lots) : lot.lot_id = c.lot_id

\* Some trade of the candidate's symbol is a buy made 31 days or fewer
\* before or after today.
BuyInWindow(c) ==
    \E t \in Range(tlh_args.trades) :
        /\ Upper(t.symbol) = Upper(c.symbol)
        /\ t.side = "buy"
        /\ t.days_ago >= -31
        /\ t.days_ago <= 31

\* C22: a returned candidate carries the near-long-term note exactly when
\* its lot is SHORT and has been held at least 351 days, and the wash-sale
\* note exactly when a BUY trade of its symbol lies within 31 days of
\* today, before or after; sells and other symbols' trades do not count.
C22_Notes ==
    tlh_pc = "done" =>
        \A i \in 1..Len(filtered) :
            LET c == filtered[i]
                lot == LotOfCandidate(c)
            IN  /\ (NearLongTermNote \in Range(c.notes))
                      <=> (lot.term = SHORT /\ lot.days_held >= 351)
                /\ (WashSaleNote \in Range(c.notes)) <=> BuyInWindow(c)

\* An AAA candidate with both notes, next to one with neither, where AAA
\* was bought exactly 31 days ago and BBB only sold.
C22_Witness ==
    /\ tlh_pc = "done"
    /\ \E i \in 1..Len(filtered) :
          /\ filtered[i].symbol = "AAA"
          /\ filtered[i].notes = <<NearLongTermNote, WashSaleNote>>
    /\ \E i \in 1..Len(filtered) : filtered[i].symbol = "BBB" /\ filtered[i].notes = <<>>
    /\ tlh_args.trades = <<[symbol |-> "BBB", side |-> "SELL", days_ago |-> 31],
                           [symbol |-> "aaa", side |-> "buy", days_ago |-> 31]>>


(***************************************************************************)
(* Properties of the target basket.                                        *)
(***************************************************************************)
CapReturned == call_pc = "returned" /\ call_in.fn = "cap_and_renormalize"

\* The whole part of rest / d followed by `places` more digits in base 100.
RECURSIVE LongDivision(_, _, _, _)
LongDivision(rest, d, whole, places) ==
    IF places = 0 THEN whole
    ELSE LongDivision((rest * 100) % d, d, whole * 100 + (rest * 100) \div d, places - 1)

\* A weight of 0..1 cut after eight decimal places, in units of 1e-8.
EightDecimals(w) == LongDivision(w[1] % w[2], w[2], w[1] \div w[2], 4)

\* Two weights differ in more than the last of eight decimal places.
WeightChanged(before, after) == Abs(EightDecimals(before) - EightDecimals(after)) > 1

\* C23: cap_and_renormalize is idempotent: applied to its own output with
\* the same max_weight, it leaves every weight unchanged (read to eight
\* decimal places).
C23_Idempotent ==
    CapReturned =>
        /\ Len(call_out[2]) = Len(call_out[1])
        /\ \A i \in DOMAIN call_out[1] :
              /\ call_out[2][i].symbol = call_out[1][i].symbol
              /\ ~WeightChanged(call_out[1][i].weight, call_out[2][i].weight)

BasketReturned == call_pc = "returned" /\ call_in.fn = "build_target_basket"

\* The cap can be met by the basket: its names times the cap reach 1.
CapFeasible ==
    RLe(R(1), RMul(R(Len(call_out.basket)), call_in.spec.max_single_name_weight))

\* C24: the weights of the basket of build_target_basket sum to 1 and none
\* is above max_single_name_weight (within 1e-9), read on the baskets that
\* are not empty and in which the cap can be met.
C24_BasketCapped ==
    (BasketReturned /\ call_out.basket # <<>> /\ CapFeasible) =>
        /\ ~WeightChanged(WSum(WeightsOf(call_out.basket)), R(1))
        /\ \A i \in DOMAIN call_out.basket :
              ~OverCap(call_out.basket[i].weight, call_in.spec.max_single_name_weight)


\* C25: a sale at a loss of L in term t takes offset = min(L, pool of t)
\* from the pool of its own term and leaves the other pool alone; its
\* estimated_tax is -(offset * (rate of t + state)
\* + (L - offset) * (rate of t + state) * 0.5); and no short-term loss is
\* sold after a long-term loss, so the short-term pool is drawn on first.
C25_LossOffsets ==
    [][(pc = "loop" /\ Len(sells') = Len(sells) + 1
            /\ RLt(sells'[Len(sells')].gain_loss, RZero)) =>
        (LET sell == sells'[Len(sells')]
             loss == RNeg(sell.gain_loss)
             offset == RMin(loss, IF sell.term = SHORT THEN offsets.st ELSE offsets.lt)
             rate == RAdd(RateOf(sell.term), tax_rates.state)
         IN  /\ offsets'.st = (IF sell.term = SHORT THEN RSub(offsets.st, offset) ELSE offsets.st)
             /\ offsets'.lt = (IF sell.term = SHORT THEN offsets.lt ELSE RSub(offsets.lt, offset))
             /\ sell.estimated_tax =
                    RNeg(RAdd(RMul(offset, rate),
                              RMul(RMul(RSub(loss, offset), rate), Rat(1, 2))))
             /\ \A i \in 1..Len(sells) :
                    ~(sell.term = SHORT /\ sells[i].term = LONG
                        /\ RLt(sells[i].gain_loss, RZero)))]_vars

\* A short-term loss larger than its pool, then a long-term loss smaller
\* than its pool, under tax rates that are not zero.
C25_Witness ==
    /\ Returned
    /\ Len(sells) >= 2
    /\ sells[1].term = SHORT /\ RLt(sells[1].gain_loss, RZero)
    /\ sells[2].term = LONG /\ RLt(sells[2].gain_loss, RZero)
    /\ RLt(RZero, summary.ytd_realized_st)
    /\ RLt(summary.ytd_realized_st, RNeg(sells[1].gain_loss))
    /\ offsets.st = RZero
    /\ offsets.lt = RAdd(summary.ytd_realized_lt, sells[2].gain_loss)
    /\ RLt(RZero, offsets.lt)
    /\ RLt(sells[1].estimated_tax, RZero)


\* The min_tax key of a candidate: its full-lot gain in a loss bucket, the
\* pair (gain / proceeds, gain) in a gain bucket.
MinTaxKey(c) ==
    IF IsLoss(c) THEN <<c.gain>> ELSE <<RDiv(c.gain, c.proceeds), c.gain>>

\* |proceeds / target_amount - symbol_weight|
DriftKey(c) ==
    RAbs(RSub(RDiv(c.proceeds, target_amount),
              IF c.lot.symbol \in DOMAIN symbol_weight THEN symbol_weight[c.lot.symbol]
              ELSE RZero))

\* The key of the goal of the call.
GoalKey(c) ==
    IF goal = "min_drift" THEN <<DriftKey(c)>>
    ELSE IF goal = "balanced"
    THEN <<RAdd(RMul(Rat(1, 2), RDiv(c.gain, c.proceeds)), RMul(Rat(1, 2), DriftKey(c)))>>
    ELSE MinTaxKey(c)

PlaceOf(c) == CHOOSE i \in 1..Len(candidates) : candidates[i] = c

\* a is consumed before b: by the key of the goal, then by the min_tax key,
\* then by the place in the list of candidates.
ConsumedBefore(a, b) ==
    \/ LexLt(GoalKey(a), GoalKey(b))
    \/ /\ ~LexLt(GoalKey(b), GoalKey(a))
       /\ \/ LexLt(MinTaxKey(a), MinTaxKey(b))
          \/ (~LexLt(MinTaxKey(b), MinTaxKey(a)) /\ PlaceOf(a) < PlaceOf(b))

\* C26: within a bucket the lots are consumed in non-decreasing order of the
\* key of the goal (min_tax: the full-lot gain in a loss bucket and the pair
\* (gain / proceeds, gain) in a gain bucket; min_drift: |proceeds /
\* target_amount - symbol_weight|; balanced: 0.5 * gain / proceeds + 0.5 *
\* that drift), and lots of equal key in their min_tax order: a sold lot
\* comes after every lot of its bucket that is before it in this order.
C26_GoalOrder ==
    /\ \A i, j \in 1..Len(sells) :
          (i < j /\ Rank(CandOf(sells[i])) = Rank(CandOf(sells[j])))
              => ConsumedBefore(CandOf(sells[i]), CandOf(sells[j]))
    /\ \A j \in 1..Len(sells) : \A c \in Range(candidates) :
          (Rank(c) = Rank(CandOf(sells[j])) /\ ConsumedBefore(c, CandOf(sells[j])))
              => \E i \in 1..(j - 1) : sells[i].lot_id = c.lot.lot_id

\* Two lots of one bucket with the same drift are sold in the order of
\* their gains, against their order in the list of candidates.
C26_Witness ==
    /\ Returned
    /\ goal = "min_drift"
    /\ Len(sells) >= 2
    /\ Rank(CandOf(sells[1])) = Rank(CandOf(sells[2]))
    /\ GoalKey(CandOf(sells[1])) = GoalKey(CandOf(sells[2]))
    /\ LexLt(MinTaxKey(CandOf(sells[1])), MinTaxKey(CandOf(sells[2])))
    /\ PlaceOf(CandOf(sells[2])) < PlaceOf(CandOf(sells[1]))

\* Under the balanced goal a lot is sold before a lot of its bucket with a
\* smaller min_tax key, because its balanced key is smaller.
C26_WitnessBalanced ==
    /\ Returned
    /\ goal = "balanced"
    /\ sells # <<>>
    /\ \E c \in Range(candidates) :
          /\ Rank(c) = Rank(CandOf(sells[1]))
          /\ LexLt(GoalKey(CandOf(sells[1])), GoalKey(c))
          /\ LexLt(MinTaxKey(c), MinTaxKey(CandOf(sells[1])))

\* C29: for a target above 0, the proceeds of the sells returned add up to
\* min(target_amount, the full-lot proceeds of all candidates).
C29_TotalProceeds ==
    (Returned /\ RLt(RZero, target_amount)) =>
        Cum(Len(sells)) = RMin(target_amount, AllProceeds)

\* The target ends inside the second lot: two sells, the last one partial.
C29_Witness ==
    /\ Returned
    /\ Len(sells) = 2
    /\ RLt(sells[2].qty, R(CandOf(sells[2]).lot.qty))
    /\ Cum(2) = target_amount
    /\ RLt(target_amount, AllProceeds)

\* The candidates run out before the target: every lot is sold whole.
C29_WitnessExhausted ==
    /\ Returned
    /\ Len(sells) = 1
    /\ Len(candidates) = 1
    /\ Cum(1) = AllProceeds
    /\ RLt(AllProceeds, target_amount)

Sign(x) == IF RLt(x, RZero) THEN -1 ELSE IF x = RZero THEN 0 ELSE 1

\* C30: no lot is in two sells; every sell but the last sells its whole
\* lot, so only the last can be partial; and the gain_loss of a sell, a
\* partial one included, has the sign of the full-lot gain of its lot.
C30_OnePartialSell ==
    /\ \A i, j \in 1..Len(sells) : i # j => sells[i].lot_id # sells[j].lot_id
    /\ \A i \in 1..(Len(sells) - 1) : sells[i].qty = R(CandOf(sells[i]).lot.qty)
    /\ \A i \in 1..Len(sells) :
          /\ RLe(sells[i].qty, R(CandOf(sells[i]).lot.qty))
          /\ Sign(sells[i].gain_loss) = Sign(CandOf(sells[i]).gain)

\* After a whole lot, part of a lot is sold at a loss smaller than the
\* loss of the whole lot.
C30_Witness ==
    /\ Returned
    /\ Len(sells) = 2
    /\ sells[1].qty = R(CandOf(sells[1]).lot.qty)
    /\ RLt(sells[2].qty, R(CandOf(sells[2]).lot.qty))
    /\ RLt(sells[2].gain_loss, RZero)
    /\ RLt(CandOf(sells[2]).gain, sells[2].gain_loss)


(***************************************************************************)
(* Properties of the buys of build_strategy_manage_plan.                   *)
(***************************************************************************)
ManageReturned == pc = "returned" /\ plan_in # <<>> /\ plan_in.planner = "manage"

\* The TLH sells and the rebalance sells of the plan.
PlanSaleProceeds ==
    RAdd(TotalProceeds(sells),
         IF "tlh_sells" \in DOMAIN plan_out THEN TotalProceeds(plan_out.tlh_sells)
         ELSE RZero)

PlanBuyDollars ==
    RSum([i \in 1..Len(plan_out.buy_targets) |-> plan_out.buy_targets[i].target_dollars])

\* C27: in every mode (tlh, rebalance, combined) the target dollars of a
\* buy on an underweight symbol never exceed the dollar underweight of that
\* symbol, and the buy dollars of the plan never exceed its sale proceeds.
C27_BuysWithinUnderweights ==
    ManageReturned =>
        /\ \A b \in Range(plan_out.buy_targets) : \A u \in Range(plan_out.underweights) :
              u.symbol = b.symbol => RLe(b.target_dollars, u.dollars)
        /\ RLe(PlanBuyDollars, PlanSaleProceeds)


(***************************************************************************)
(* Properties of the two selectors.                                        *)
(***************************************************************************)
BothReturned == pc = "wd_done" /\ call_pc = "second"

\* The fields of a sell that the two selectors are compared on.
SellFields(sell) ==
    <<sell.lot_id, sell.symbol, sell.qty, sell.price, sell.proceeds, sell.basis,
      sell.gain_loss, sell.term, sell.estimated_tax>>

\* C28: on the same arguments _select_sells of withdrawals.py and
\* select_sells of liquidation.py return the same sequence of sells (lot,
\* qty, proceeds, basis, gain_loss, term, estimated_tax), and one returns
\* its exhaustion warning exactly when the other does.
C28_SelectorsAgree ==
    BothReturned =>
        /\ Len(sells) = Len(call_out.sells)
        /\ \A i \in 1..Len(sells) : SellFields(sells[i]) = SellFields(call_out.sells[i])
        /\ (warnings # <<>>) <=> (call_out.warnings # <<>>)
        /\ (warnings # <<>>) <=> RLt(TotalProceeds(sells), target_amount)

\* Three sells re-sorted for the balanced goal, the same from both
\* selectors but for their rationale.
C28_Witness ==
    /\ BothReturned
    /\ goal = "balanced"
    /\ Len(sells) = 3
    /\ \E i \in 1..3 : RLt(sells[i].gain_loss, RZero)
    /\ \E i \in 1..3 : RLt(RZero, sells[i].gain_loss)
    /\ \A i \in 1..3 : sells[i].rationale # call_out.sells[i].rationale

\* Both selectors run out of candidates and warn, each in its own words.
C28_WitnessWarned ==
    /\ BothReturned
    /\ sells # <<>>
    /\ warnings # <<>>
    /\ call_out.warnings # <<>>
    /\ warnings # call_out.warnings

=============================================================================
